---- MODULE Spec2Model ----
(***************************************************************************)
(* A model of the collaboration server's two stateful components:         *)
(*   - the session registry       (src/server/sessions.py)                *)
(*   - the persistent memory store (src/server/memory.py)                 *)
(* The server handles one request at a time (src/server/server.py, main), *)
(* so every handler is one atomic action.  Both components are used after *)
(* initialize() has run (server.py:111-112).                              *)
(***************************************************************************)
EXTENDS Integers, Sequences, FiniteSets, TLC

VARIABLES
    ACTIVE_SESSIONS,   \* sessions.py:18  live registry: session id -> session record
    archive,           \* files of SESSIONS_DIR: session id -> transcript file content
    usedIds,           \* session ids uuid4 has handed out so far
    markers,           \* history: per session, the last LogLen status markers processed
    seen,              \* history: per session, number of markers processed (saturates)
    inflight,          \* two requests on one session and how far each has come
    ret,               \* history: the last call, its arguments and what it returned
    now,               \* the wall clock (time.time / datetime.now)
    file,              \* memory.py:23  content of MEMORY_FILE (grok-memory.json)
    tmp,               \* content of the temporary file grok-memory.tmp
    backup,            \* content of the backup file grok-memory.backup.json
    memory_cache,      \* memory.py:26  _memory_cache
    cache_timestamp,   \* memory.py:27  _cache_timestamp
    peer_cache,        \* _memory_cache of a second server process on the same files
    peer_timestamp,    \* _cache_timestamp of the second server process
    hist,              \* history: ids handed out since the store was empty
    faults             \* history: number of writes that have failed so far

sessVars == <<ACTIVE_SESSIONS, archive, usedIds, markers, seen, inflight>>
storeVars == <<file, tmp, backup, memory_cache, cache_timestamp,
               peer_cache, peer_timestamp, hist, faults>>
vars == <<ACTIVE_SESSIONS, archive, usedIds, markers, seen, inflight, ret, now,
          file, tmp, backup, memory_cache, cache_timestamp,
          peer_cache, peer_timestamp, hist, faults>>

None == "None"

----------------------------------------------------------------------------
(* Bounds of the model.                                                    *)

\* longest tail of processed markers the history variable keeps
LogLen == 3
\* cap on consecutive_agrees / consecutive_disagrees (unbounded in the code)
MaxCount == 4
\* cap on the length of a session's history
MaxHist == 2

----------------------------------------------------------------------------
(* Texts.  An agent response is a sequence of segments: prose, or a        *)
(* bracketed marker "[TAG: type key="val" ...]" as the agent wrote it.     *)

Prose == [tag |-> "prose", type |-> "", attrs |-> <<>>]
Bracket(tag, type, attrs) == [tag |-> tag, type |-> type, attrs |-> attrs]
Attr(key, val) == [key |-> key, val |-> val]

\* str.upper() on the words the sample texts use
Upper(s) ==
    CASE s = "agree"    -> "AGREE"
      [] s = "Disagree" -> "DISAGREE"
      [] s = "status"   -> "STATUS"
      [] OTHER          -> s

StatusTypes == {"AGREE", "DISAGREE", "PARTIAL", "PROPOSAL", "NEED_INFO"}

\* whether a segment matches the status regex (re.IGNORECASE)
IsStatusMarker(seg) ==
    /\ Upper(seg.tag) = "STATUS"
    /\ Upper(seg.type) \in StatusTypes

\* a failed re.search
NoMatch == [tag |-> "None", type |-> "", attrs |-> <<>>]

\* re.search: the first matching segment of the text, NoMatch when there is none
StatusMatch(text) ==
    LET hits == {i \in 1..Len(text) : IsStatusMarker(text[i])}
    IN  IF hits = {} THEN NoMatch
        ELSE text[CHOOSE i \in hits : \A j \in hits : i <= j]

\* the reason regex (case-sensitive key) on the matched marker: group(1) or ""
ExtractReason(seg) ==
    LET hits == {i \in 1..Len(seg.attrs) : seg.attrs[i].key = "reason"}
    IN  IF hits = {} THEN ""
        ELSE seg.attrs[CHOOSE i \in hits : \A j \in hits : i <= j].val

----------------------------------------------------------------------------
(* Session registry.                                                       *)

SESSIONS_DIR == "memory/sessions"

NewSession(sid, task, project, context, t) ==
    [id |-> sid, created |-> t, project |-> project, task |-> task,
     context |-> context, history |-> <<>>, turn_count |-> 0,
     status |-> "active", consecutive_agrees |-> 0,
     consecutive_disagrees |-> 0, last_disagree_topic |-> ""]

Live(sid) == sid \in DOMAIN ACTIVE_SESSIONS

\* dict assignment d[k] = v
Put(d, k, v) == [x \in DOMAIN d \cup {k} |-> IF x = k THEN v ELSE d[x]]
\* dict.pop(k)
Drop(d, k) == [x \in DOMAIN d \ {k} |-> d[x]]

\* the last LogLen entries of a log with one more entry
Push(log, e) ==
    LET l == Append(log, e)
    IN  IF Len(l) > LogLen THEN SubSeq(l, Len(l) - LogLen + 1, Len(l)) ELSE l

Bump(n) == IF n > LogLen THEN n ELSE n + 1

CreateSession(sid, task, project, context) ==
    /\ sid \notin usedIds                  \* uuid4: an id not handed out before
    /\ ACTIVE_SESSIONS' = Put(ACTIVE_SESSIONS, sid,
                              NewSession(sid, task, project, context, now))
    /\ usedIds' = usedIds \cup {sid}
    /\ markers' = Put(markers, sid, <<>>)
    /\ seen' = Put(seen, sid, 0)
    /\ ret' = [op |-> "create_session", sid |-> sid, arg |-> None, result |-> sid]
    /\ UNCHANGED <<archive, now>>
    /\ UNCHANGED storeVars

GetSession(sid) ==
    /\ ret' = [op |-> "get_session", sid |-> sid, arg |-> None,
               result |-> IF Live(sid) THEN ACTIVE_SESSIONS[sid] ELSE None]
    /\ UNCHANGED <<ACTIVE_SESSIONS, archive, usedIds, markers, seen, now>>
    /\ UNCHANGED storeVars

AddTurnToUncounted(session, role, content) ==
    [session EXCEPT !.history = Append(@, [role |-> role, content |-> content])]

AddTurnToCountsAll(session, role, content) ==
    [session EXCEPT !.history = Append(@, [role |-> role, content |-> content]),
                    !.turn_count = @ + 1]

\* the session after add_turn's append and count
AddTurnTo(session, role, content) ==
    LET s1 == [session EXCEPT !.history =
                   Append(@, [role |-> role, content |-> content])]
    IN  IF role = "assistant" THEN [s1 EXCEPT !.turn_count = @ + 1] ELSE s1

AddTurnShared(sid, role, content) ==
    /\ IF ~Live(sid)
       THEN /\ ret' = [op |-> "add_turn", sid |-> sid, arg |-> role,
                       result |-> "ValueError"]
            /\ UNCHANGED ACTIVE_SESSIONS
       ELSE /\ Len(ACTIVE_SESSIONS[sid].history) < MaxHist
            /\ ACTIVE_SESSIONS' = [x \in DOMAIN ACTIVE_SESSIONS |->
                                     AddTurnTo(ACTIVE_SESSIONS[x], role, content)]
            /\ ret' = [op |-> "add_turn", sid |-> sid, arg |-> role,
                       result |-> None]
    /\ UNCHANGED <<archive, usedIds, markers, seen, now>>
    /\ UNCHANGED storeVars

AddTurnQuiet(sid, role, content) ==
    /\ IF ~Live(sid)
       THEN /\ ret' = [op |-> "add_turn", sid |-> sid, arg |-> role,
                       result |-> None]
            /\ UNCHANGED ACTIVE_SESSIONS
       ELSE /\ Len(ACTIVE_SESSIONS[sid].history) < MaxHist
            /\ ACTIVE_SESSIONS' = [ACTIVE_SESSIONS EXCEPT
                                     ![sid] = AddTurnTo(@, role, content)]
            /\ ret' = [op |-> "add_turn", sid |-> sid, arg |-> role,
                       result |-> None]
    /\ UNCHANGED <<archive, usedIds, markers, seen, now>>
    /\ UNCHANGED storeVars

\* add_turn: ValueError if the id names no live session
AddTurn(sid, role, content) ==
    /\ IF ~Live(sid)
       THEN /\ ret' = [op |-> "add_turn", sid |-> sid, arg |-> role,
                       result |-> "ValueError"]
            /\ UNCHANGED ACTIVE_SESSIONS
       ELSE /\ Len(ACTIVE_SESSIONS[sid].history) < MaxHist
            /\ ACTIVE_SESSIONS' = [ACTIVE_SESSIONS EXCEPT
                                     ![sid] = AddTurnTo(@, role, content)]
            /\ ret' = [op |-> "add_turn", sid |-> sid, arg |-> role,
                       result |-> None]
    /\ UNCHANGED <<archive, usedIds, markers, seen, now>>
    /\ UNCHANGED storeVars

GetHistory(sid) ==
    /\ ret' = [op |-> "get_history", sid |-> sid, arg |-> None,
               result |-> IF Live(sid) THEN ACTIVE_SESSIONS[sid].history ELSE <<>>]
    /\ UNCHANGED <<ACTIVE_SESSIONS, archive, usedIds, markers, seen, now>>
    /\ UNCHANGED storeVars

OnAgreeKeepsDisagrees(s) ==
    LET n == s.consecutive_agrees + 1
    IN  [s EXCEPT !.consecutive_agrees = n,
                  !.status = IF n >= 2 THEN "consensus" ELSE "active"]

OnAgreeMut(s) ==
    LET n == s.consecutive_agrees + 1
    IN  [s EXCEPT !.consecutive_agrees = n,
                  !.consecutive_disagrees = 0,
                  !.status = IF n >= 1 THEN "consensus" ELSE "active"]

\* the AGREE branch
OnAgree(s) ==
    LET n == s.consecutive_agrees + 1
    IN  [s EXCEPT !.consecutive_agrees = n,
                  !.consecutive_disagrees = 0,
                  !.status = IF n >= 2 THEN "consensus" ELSE "active"]

OnDisagreeMut(s, topic) ==
    LET n == s.consecutive_disagrees + 1
    IN  [s EXCEPT !.consecutive_agrees = 0,
                  !.consecutive_disagrees = n,
                  !.status = IF n >= 3
                             THEN "persistent_disagreement" ELSE "active",
                  !.last_disagree_topic = topic]

OnDisagreeStale(s, topic) ==
    LET n == s.consecutive_disagrees + 1
    IN  [s EXCEPT !.consecutive_agrees = 0,
                  !.consecutive_disagrees = n,
                  !.status = IF n >= 3 /\ (topic = "" \/ topic = s.last_disagree_topic)
                             THEN "persistent_disagreement" ELSE "active"]

OnDisagreeNamedOnly(s, topic) ==
    LET n == s.consecutive_disagrees + 1
    IN  [s EXCEPT !.consecutive_agrees = 0,
                  !.consecutive_disagrees = n,
                  !.status = IF n >= 3 /\ topic # "" /\ topic = s.last_disagree_topic
                             THEN "persistent_disagreement" ELSE "active",
                  !.last_disagree_topic = topic]

\* the DISAGREE branch, topic being the extracted reason
OnDisagree(s, topic) ==
    LET n == s.consecutive_disagrees + 1
    IN  [s EXCEPT !.consecutive_agrees = 0,
                  !.consecutive_disagrees = n,
                  !.status = IF n >= 3 /\ (topic = "" \/ topic = s.last_disagree_topic)
                             THEN "persistent_disagreement" ELSE "active",
                  !.last_disagree_topic = topic]

OnNeedInfoWaiting(s) == [s EXCEPT !.status = "waiting"]

OnResetAgreesOnly(s) ==
    [s EXCEPT !.consecutive_agrees = 0, !.status = "active"]

OnNeedInfoResets(s) ==
    [s EXCEPT !.consecutive_agrees = 0, !.consecutive_disagrees = 0,
              !.status = "needs_info"]

\* the PARTIAL and PROPOSAL branches
OnReset(s) ==
    [s EXCEPT !.consecutive_agrees = 0, !.consecutive_disagrees = 0,
              !.status = "active"]

\* the NEED_INFO branch
OnNeedInfo(s) == [s EXCEPT !.status = "needs_info"]

\* the session after detect_consensus has processed a matched marker
Transition(s, m) ==
    LET status_type == Upper(m.type)
    IN  CASE status_type = "AGREE"     -> OnAgree(s)
          [] status_type = "DISAGREE"  -> OnDisagree(s, ExtractReason(m))
          [] status_type = "PARTIAL"   -> OnReset(s)
          [] status_type = "PROPOSAL"  -> OnReset(s)
          [] status_type = "NEED_INFO" -> OnNeedInfo(s)

\* no marker processed
NoMarker == [type |-> "", topic |-> ""]

\* what the history keeps of a processed marker
Parsed(m) ==
    [type |-> Upper(m.type),
     topic |-> IF Upper(m.type) = "DISAGREE" THEN ExtractReason(m) ELSE ""]

DetectConsensusForgets(sid, text) ==
    LET m == StatusMatch(text)
    IN  /\ IF ~Live(sid)
           THEN /\ ret' = [op |-> "detect_consensus", sid |-> sid, arg |-> NoMarker,
                           result |-> "error"]
                /\ UNCHANGED <<ACTIVE_SESSIONS, markers, seen>>
           ELSE IF m = NoMatch
           THEN /\ ret' = [op |-> "detect_consensus", sid |-> sid, arg |-> NoMarker,
                           result |-> ACTIVE_SESSIONS[sid].status]
                /\ ACTIVE_SESSIONS' = [ACTIVE_SESSIONS EXCEPT ![sid] = OnReset(@)]
                /\ UNCHANGED <<markers, seen>>
           ELSE LET s == Transition(ACTIVE_SESSIONS[sid], m)
                IN  /\ s.consecutive_agrees <= MaxCount
                    /\ s.consecutive_disagrees <= MaxCount
                    /\ ACTIVE_SESSIONS' = [ACTIVE_SESSIONS EXCEPT ![sid] = s]
                    /\ markers' = [markers EXCEPT ![sid] = Push(@, Parsed(m))]
                    /\ seen' = [seen EXCEPT ![sid] = Bump(@)]
                    /\ ret' = [op |-> "detect_consensus", sid |-> sid,
                               arg |-> Parsed(m), result |-> s.status]
        /\ UNCHANGED <<archive, usedIds, now>>
        /\ UNCHANGED storeVars

\* detect_consensus on a response text
DetectConsensus(sid, text) ==
    LET m == StatusMatch(text)
    IN  /\ IF ~Live(sid)
           THEN /\ ret' = [op |-> "detect_consensus", sid |-> sid, arg |-> NoMarker,
                           result |-> "error"]
                /\ UNCHANGED <<ACTIVE_SESSIONS, markers, seen>>
           ELSE IF m = NoMatch
           THEN /\ ret' = [op |-> "detect_consensus", sid |-> sid, arg |-> NoMarker,
                           result |-> ACTIVE_SESSIONS[sid].status]
                /\ UNCHANGED <<ACTIVE_SESSIONS, markers, seen>>
           ELSE LET s == Transition(ACTIVE_SESSIONS[sid], m)
                IN  /\ s.consecutive_agrees <= MaxCount
                    /\ s.consecutive_disagrees <= MaxCount
                    /\ ACTIVE_SESSIONS' = [ACTIVE_SESSIONS EXCEPT ![sid] = s]
                    /\ markers' = [markers EXCEPT ![sid] = Push(@, Parsed(m))]
                    /\ seen' = [seen EXCEPT ![sid] = Bump(@)]
                    /\ ret' = [op |-> "detect_consensus", sid |-> sid,
                               arg |-> Parsed(m), result |-> s.status]
        /\ UNCHANGED <<archive, usedIds, now>>
        /\ UNCHANGED storeVars

\* a transcript file cut short by a failed dump: not a session record
PartialFile == [kind |-> "partial"]

FinalizeAsEnded(session, t) ==
    [s \in {"ended"} |-> t] @@ [session EXCEPT !.status = "ended"]

\* the popped session with its end time; the status it has is kept
Finalize(session, t) ==
    [s \in {"ended"} |-> t] @@ session

\* end_session; outcome is how the transcript write went
\* end_session as it would be if it also counted the session in the statistics
EndSessionCounts(sid, outcome) ==
    LET counted(memory) ==
            [memory EXCEPT !.statistics.sessions_count = @ + 1]
    IN  /\ outcome = "ok"
        /\ IF ~Live(sid)
           THEN /\ ret' = [op |-> "end_session", sid |-> sid, arg |-> outcome,
                           found |-> FALSE, result |-> None]
                /\ UNCHANGED <<ACTIVE_SESSIONS, archive, file, memory_cache>>
           ELSE LET session == Finalize(ACTIVE_SESSIONS[sid], now)
                IN  /\ ACTIVE_SESSIONS' = Drop(ACTIVE_SESSIONS, sid)
                    /\ archive' = Put(archive, sid, session)
                    /\ ret' = [op |-> "end_session", sid |-> sid,
                               arg |-> outcome, found |-> TRUE,
                               result |-> session]
                    /\ file' = IF file.kind = "json"
                               THEN [file EXCEPT !.data = counted(@)]
                               ELSE file
                    /\ memory_cache' = IF "statistics" \in DOMAIN memory_cache
                                       THEN counted(memory_cache)
                                       ELSE memory_cache
        /\ UNCHANGED <<usedIds, markers, seen, inflight, now, tmp, backup,
                       cache_timestamp, peer_cache, peer_timestamp, hist,
                       faults>>

EndSession(sid, outcome) ==
    /\ IF ~Live(sid)
       THEN /\ outcome = "ok"
            /\ ret' = [op |-> "end_session", sid |-> sid, arg |-> outcome,
                       found |-> FALSE, result |-> None]
            /\ UNCHANGED <<ACTIVE_SESSIONS, archive>>
       ELSE LET session == Finalize(ACTIVE_SESSIONS[sid], now)
            IN  /\ ACTIVE_SESSIONS' = Drop(ACTIVE_SESSIONS, sid)
                /\ CASE SESSIONS_DIR = None ->
                          /\ outcome = "ok"
                          /\ UNCHANGED archive
                          /\ ret' = [op |-> "end_session", sid |-> sid,
                                     arg |-> outcome, found |-> TRUE,
                                     result |-> session]
                     [] SESSIONS_DIR # None /\ outcome = "ok" ->
                          /\ archive' = Put(archive, sid, session)
                          /\ ret' = [op |-> "end_session", sid |-> sid,
                                     arg |-> outcome, found |-> TRUE,
                                     result |-> session]
                     [] SESSIONS_DIR # None /\ outcome = "open_fails" ->
                          /\ UNCHANGED archive
                          /\ ret' = [op |-> "end_session", sid |-> sid,
                                     arg |-> outcome, found |-> TRUE,
                                     result |-> "OSError"]
                     [] SESSIONS_DIR # None /\ outcome = "dump_fails" ->
                          /\ archive' = Put(archive, sid, PartialFile)
                          /\ ret' = [op |-> "end_session", sid |-> sid,
                                     arg |-> outcome, found |-> TRUE,
                                     result |-> "OSError"]
    /\ UNCHANGED <<usedIds, markers, seen, now>>
    /\ UNCHANGED storeVars

\* no request is under way
Idle == [kind |-> "idle"]

\* two continue-session requests arrive for the session; each will record
\* the assistant's reply and then detect consensus on it
\* (server.py:764-766), the calls of the two interleaved in any order
Arrive(sid, text1, text2) ==
    /\ inflight = Idle
    /\ Live(sid)
    /\ inflight' = [kind |-> "busy", sid |-> sid, base |-> ACTIVE_SESSIONS[sid],
                    texts |-> <<text1, text2>>, stage |-> <<"new", "new">>,
                    order |-> <<>>]
    /\ UNCHANGED <<ACTIVE_SESSIONS, archive, usedIds, markers, seen, ret, now>>
    /\ UNCHANGED storeVars

\* request i makes its next call
Step(i) ==
    /\ inflight # Idle
    /\ \/ /\ inflight.stage[i] = "new"
          /\ AddTurn(inflight.sid, "assistant", inflight.texts[i])
          /\ inflight' = [inflight EXCEPT !.stage[i] = "turned",
                                          !.order = Append(@, i)]
       \/ /\ inflight.stage[i] = "turned"
          /\ DetectConsensus(inflight.sid, inflight.texts[i])
          /\ inflight' = [inflight EXCEPT !.stage[i] = "done",
                                          !.order = Append(@, i)]

----------------------------------------------------------------------------
(* Strings.  A text is a sequence of runs [w, n]: n characters of the      *)
(* word w repeated (a one-letter word is a plain run of that letter; a run *)
(* shorter than its word is a cut word).  Adjacent runs differ in w.       *)

Run(w, n) == [w |-> w, n |-> n]

\* str.lower() on the words the sample texts use
LowerWord(w) ==
    CASE w = "A"      -> "a"
      [] w = "Docker" -> "docker"
      [] w = "Fix"    -> "fix"
      [] OTHER        -> w

\* len() of the words the sample texts use
WordLen(w) ==
    CASE w \in {"docker", "Docker", "design"} -> 6
      [] w \in {"fix", "Fix", "bug"}          -> 3
      [] OTHER                                -> 1

Whitespace == {" "}

RECURSIVE Canon(_)
\* runs of no characters dropped, adjacent runs of the same word joined
Canon(text) ==
    IF text = <<>> THEN <<>>
    ELSE LET rest == Canon(Tail(text))
             r == Head(text)
         IN  IF r.n = 0 THEN rest
             ELSE IF rest # <<>> /\ Head(rest).w = r.w
             THEN <<Run(r.w, r.n + Head(rest).n)>> \o Tail(rest)
             ELSE <<r>> \o rest

RECURSIVE LStrip(_, _)
\* str.lstrip(chars)
LStrip(text, chars) ==
    IF text # <<>> /\ Head(text).w \in chars THEN LStrip(Tail(text), chars)
    ELSE text

RECURSIVE RStrip(_, _)
\* str.rstrip(chars)
RStrip(text, chars) ==
    IF text # <<>> /\ text[Len(text)].w \in chars
    THEN RStrip(SubSeq(text, 1, Len(text) - 1), chars)
    ELSE text

\* str.strip()
Strip(text) == RStrip(LStrip(text, Whitespace), Whitespace)

\* str.lower()
Lower(text) == Canon([i \in 1..Len(text) |-> Run(LowerWord(text[i].w), text[i].n)])

RECURSIVE StrLen(_)
\* len()
StrLen(text) == IF text = <<>> THEN 0 ELSE Head(text).n + StrLen(Tail(text))

RECURSIVE Take(_, _)
\* text[:k]
Take(text, k) ==
    IF text = <<>> \/ k <= 0 THEN <<>>
    ELSE IF Head(text).n >= k THEN <<Run(Head(text).w, k)>>
    ELSE <<Head(text)>> \o Take(Tail(text), k - Head(text).n)

\* w in text, for a keyword w
Contains(text, w) == \E i \in 1..Len(text) : text[i].w = w /\ text[i].n >= WordLen(w)

----------------------------------------------------------------------------
(* Memory store.                                                           *)

MEMORY_FILE == "memory/grok-memory.json"
CACHE_TTL == 60
DEDUP_PREFIX == 80
MIN_BULK_LINE == 15

\* file contents
Missing == [kind |-> "missing"]
Truncated == [kind |-> "truncated"]
\* bytes that are not UTF-8 text
Undecodable == [kind |-> "undecodable"]
Json(memory) == [kind |-> "json", data |-> memory]

\* _memory_cache = None
NoCache == [kind |-> "none"]

InitialMemory(t) ==
    [version |-> 1, created |-> t, last_updated |-> t, identity |-> "identity",
     learnings |-> <<>>, corrections |-> <<>>, project_contexts |-> <<>>,
     statistics |-> [total_calls |-> 0, calls_by_tool |-> <<>>,
                     learnings_count |-> 0, corrections_count |-> 0,
                     sessions_count |-> 0]]

\* the store as a call finds and leaves it
Store ==
    [cache |-> memory_cache, ts |-> cache_timestamp, file |-> file,
     tmp |-> tmp, backup |-> backup]

WriteOutcomes == {"ok", "open_fails", "dump_fails", "replace_fails"}

WriteMemoryFileDirect(st, memory, outcome) ==
    CASE outcome = "ok"         -> [st |-> [st EXCEPT !.file = Json(memory)], raised |-> FALSE]
      [] outcome = "open_fails" -> [st |-> st, raised |-> TRUE]
      [] OTHER                  -> [st |-> [st EXCEPT !.file = Truncated], raised |-> TRUE]

\* _write_memory_file: the temporary file is opened, written and closed, then
\* renamed over MEMORY_FILE; outcome says which of these steps raises
WriteMemoryFile(st, memory, outcome) ==
    IF MEMORY_FILE = None THEN [st |-> st, raised |-> FALSE]
    ELSE CASE outcome = "open_fails" ->
                [st |-> st, raised |-> TRUE]
           [] outcome = "dump_fails" ->
                [st |-> [st EXCEPT !.tmp = Truncated], raised |-> TRUE]
           [] outcome = "replace_fails" ->
                [st |-> [st EXCEPT !.tmp = Json(memory)], raised |-> TRUE]
           [] outcome = "ok" ->
                [st |-> [st EXCEPT !.tmp = Missing, !.file = Json(memory)],
                 raised |-> FALSE]

\* load_memory returns memory and leaves the store st
Loads(st, memory) == [st |-> st, memory |-> memory, raised |-> FALSE, error |-> None]

LoadMemoryCreates(st, t) ==
    IF st.cache # NoCache /\ (t - st.ts) < CACHE_TTL
    THEN Loads(st, st.cache)
    ELSE IF MEMORY_FILE = None \/ st.file = Missing
    THEN Loads([st EXCEPT !.cache = InitialMemory(t), !.ts = t,
                          !.file = Json(InitialMemory(t))], InitialMemory(t))
    ELSE IF st.file.kind = "json"
    THEN Loads([st EXCEPT !.cache = st.file.data, !.ts = t], st.file.data)
    ELSE IF st.file.kind = "undecodable"
    THEN [st |-> st, memory |-> NoCache, raised |-> TRUE,
          error |-> "UnicodeDecodeError"]
    ELSE Loads([st EXCEPT !.backup = st.file, !.file = Missing,
                          !.cache = InitialMemory(t), !.ts = t], InitialMemory(t))

LoadMemoryStale(st, t) ==
    IF st.cache # NoCache /\ (t - st.ts) <= CACHE_TTL
    THEN Loads(st, st.cache)
    ELSE IF MEMORY_FILE = None \/ st.file = Missing
    THEN Loads([st EXCEPT !.cache = InitialMemory(t), !.ts = t], InitialMemory(t))
    ELSE IF st.file.kind = "json"
    THEN Loads([st EXCEPT !.cache = st.file.data, !.ts = t], st.file.data)
    ELSE IF st.file.kind = "undecodable"
    THEN [st |-> st, memory |-> NoCache, raised |-> TRUE,
          error |-> "UnicodeDecodeError"]
    ELSE Loads([st EXCEPT !.backup = st.file, !.file = Missing,
                          !.cache = InitialMemory(t), !.ts = t], InitialMemory(t))

\* load_memory at time t: the store it leaves and the object it returns
\* (the returned object is the cache itself); json.JSONDecodeError and
\* OSError are caught, the UnicodeDecodeError of open(..., encoding="utf-8")
\* on bytes that are not UTF-8 is neither
LoadMemory(st, t) ==
    IF st.cache # NoCache /\ (t - st.ts) < CACHE_TTL
    THEN Loads(st, st.cache)
    ELSE IF MEMORY_FILE = None \/ st.file = Missing
    THEN Loads([st EXCEPT !.cache = InitialMemory(t), !.ts = t], InitialMemory(t))
    ELSE IF st.file.kind = "json"
    THEN Loads([st EXCEPT !.cache = st.file.data, !.ts = t], st.file.data)
    ELSE IF st.file.kind = "undecodable"
    THEN [st |-> st, memory |-> NoCache, raised |-> TRUE,
          error |-> "UnicodeDecodeError"]
    ELSE Loads([st EXCEPT !.backup = st.file, !.file = Missing,
                          !.cache = InitialMemory(t), !.ts = t], InitialMemory(t))

SaveMemoryCacheOnly(st, memory, t, outcome) ==
    LET m == [memory EXCEPT !.last_updated = t]
    IN  [st |-> [st EXCEPT !.cache = m, !.ts = t], raised |-> FALSE]

SaveMemoryQuiet(st, memory, t, outcome) ==
    LET m == [memory EXCEPT !.last_updated = t]
        w == WriteMemoryFile([st EXCEPT !.cache = m], m, outcome)
    IN  [st |-> [w.st EXCEPT !.cache = m, !.ts = t], raised |-> FALSE]

\* save_memory at time t of the object load_memory returned, changed in
\* place to memory: a write that raises leaves the changed object in the
\* cache and the cache timestamp as it was
SaveMemory(st, memory, t, outcome) ==
    LET m == [memory EXCEPT !.last_updated = t]
        w == WriteMemoryFile([st EXCEPT !.cache = m], m, outcome)
    IN  IF w.raised THEN [st |-> w.st, raised |-> TRUE]
        ELSE [st |-> [w.st EXCEPT !.cache = m, !.ts = t], raised |-> FALSE]

\* the result of a call: the store it leaves, and what it returns or raises
Returns(st, value) == [st |-> st, result |-> value, raised |-> FALSE]
Raises(st, error) == [st |-> st, result |-> error, raised |-> TRUE]
Saved(s, value) ==
    [st |-> s.st, result |-> IF s.raised THEN "OSError" ELSE value,
     raised |-> s.raised]

Pad4(n) ==
    CASE n < 10   -> "000" \o ToString(n)
      [] n < 100  -> "00" \o ToString(n)
      [] n < 1000 -> "0" \o ToString(n)
      [] OTHER    -> ToString(n)

FormatIdFromZero(prefix, n) == [prefix |-> prefix, digits |-> Pad4(n - 1)]

\* f"{prefix}{n:04d}"
FormatId(prefix, n) == [prefix |-> prefix, digits |-> Pad4(n)]

\* content.strip().lower()[:80]
Normalized(content) == Take(Lower(Strip(content)), DEDUP_PREFIX)

\* add_learning's scan: the indexes of the learnings the content duplicates
Duplicates(memory, category, content) ==
    {i \in 1..Len(memory.learnings) :
        /\ memory.learnings[i].category = category
        /\ Normalized(memory.learnings[i].content) = Normalized(content)}

Min(S) == CHOOSE i \in S : \A j \in S : i <= j

WithLearningUncounted(memory, learning) ==
    [memory EXCEPT !.learnings = Append(@, learning)]

\* add_learning's append and count
WithLearning(memory, learning) ==
    LET m == [memory EXCEPT !.learnings = Append(@, learning)]
    IN  [m EXCEPT !.statistics.learnings_count = Len(m.learnings)]

\* add_learning at time t
AddLearningF(st, source, category, content, project, confidence, t, outcome) ==
    LET l == LoadMemory(st, t)
        memory == l.memory
        dups == Duplicates(memory, category, content)
    IN  IF l.raised THEN Raises(l.st, l.error)
        ELSE IF dups # {} THEN Returns(l.st, memory.learnings[Min(dups)].id)
        ELSE LET learning_id == FormatId("L", Len(memory.learnings) + 1)
                 learning == [id |-> learning_id, timestamp |-> t,
                              source |-> source, project |-> project,
                              category |-> category, content |-> Strip(content),
                              confidence |-> confidence]
             IN  Saved(SaveMemory(l.st, WithLearning(memory, learning), t, outcome),
                       learning_id)

\* add_correction at time t
AddCorrectionF(st, corrector, original_claim, correction, category, t, outcome) ==
    LET l == LoadMemory(st, t)
        memory == l.memory
        correction_id == FormatId("C", Len(memory.corrections) + 1)
        entry == [id |-> correction_id, timestamp |-> t, corrector |-> corrector,
                  original_claim |-> Strip(original_claim),
                  correction |-> Strip(correction), category |-> category]
        m1 == [memory EXCEPT !.corrections = Append(@, entry)]
        m2 == [m1 EXCEPT !.statistics.corrections_count = Len(m1.corrections)]
    IN  IF l.raised THEN Raises(l.st, l.error)
        ELSE Saved(SaveMemory(l.st, m2, t, outcome), correction_id)

\* dict assignment d[k] = v
DictSet(d, k, v) == [x \in DOMAIN d \cup {k} |-> IF x = k THEN v ELSE d[x]]
\* dict.get(k, default)
DictGet(d, k, default) == IF k \in DOMAIN d THEN d[k] ELSE default

UpdateProjectContextOverwrites(st, project, tech_stack, summary, t, outcome) ==
    LET l == LoadMemory(st, t)
        memory == l.memory
        ctx0 == DictGet(memory.project_contexts, project, <<>>)
        ctx1 == DictSet(ctx0, "tech_stack", tech_stack)
        ctx2 == DictSet(ctx1, "summary", summary)
        ctx3 == DictSet(ctx2, "last_active", t)
        m == [memory EXCEPT !.project_contexts = DictSet(@, project, ctx3)]
    IN  IF l.raised THEN Raises(l.st, l.error)
        ELSE Saved(SaveMemory(l.st, m, t, outcome), None)

\* update_project_context at time t
UpdateProjectContextF(st, project, tech_stack, summary, t, outcome) ==
    LET l == LoadMemory(st, t)
        memory == l.memory
        ctx0 == DictGet(memory.project_contexts, project, <<>>)
        ctx1 == IF tech_stack # "" THEN DictSet(ctx0, "tech_stack", tech_stack) ELSE ctx0
        ctx2 == IF summary # "" THEN DictSet(ctx1, "summary", summary) ELSE ctx1
        ctx3 == DictSet(ctx2, "last_active", t)
        m == [memory EXCEPT !.project_contexts = DictSet(@, project, ctx3)]
    IN  IF l.raised THEN Raises(l.st, l.error)
        ELSE Saved(SaveMemory(l.st, m, t, outcome), None)

RecordCallFirstOnly(st, tool_name, t, outcome) ==
    LET l == LoadMemory(st, t)
        memory == l.memory
        m == [memory EXCEPT
                !.statistics.total_calls = memory.statistics.total_calls + 1,
                !.statistics.calls_by_tool = DictSet(@, tool_name, 1)]
    IN  IF l.raised THEN Raises(l.st, l.error)
        ELSE Saved(SaveMemory(l.st, m, t, outcome), None)

\* record_call at time t
RecordCallF(st, tool_name, t, outcome) ==
    LET l == LoadMemory(st, t)
        memory == l.memory
        stats == memory.statistics
        m == [memory EXCEPT
                !.statistics.total_calls = stats.total_calls + 1,
                !.statistics.calls_by_tool =
                    DictSet(@, tool_name, DictGet(@, tool_name, 0) + 1)]
    IN  IF l.raised THEN Raises(l.st, l.error)
        ELSE Saved(SaveMemory(l.st, m, t, outcome), None)

\* Python truth of an optional string argument
Truthy(x) == x # None /\ x # ""

\* seq[:stop]
SliceTo(seq, stop) ==
    LET n == Len(seq)
        k == IF stop >= 0 THEN (IF stop < n THEN stop ELSE n)
             ELSE (IF n + stop > 0 THEN n + stop ELSE 0)
    IN  SubSeq(seq, 1, k)

\* seq[start:]
SliceFrom(seq, start) ==
    LET n == Len(seq)
        k == IF start >= 0 THEN (IF start < n THEN start ELSE n)
             ELSE (IF n + start > 0 THEN n + start ELSE 0)
    IN  SubSeq(seq, k + 1, n)

KeyGreaterByConfidence(a, b) == a.confidence > b.confidence

\* the sort key (confidence, timestamp) of a is greater than that of b
KeyGreater(a, b) ==
    \/ a.confidence > b.confidence
    \/ a.confidence = b.confidence /\ a.timestamp > b.timestamp

\* x put into a descending list behind every entry whose key is not smaller
RECURSIVE InsertDesc(_, _)
InsertDesc(sorted, x) ==
    IF sorted = <<>> THEN <<x>>
    ELSE IF KeyGreater(x, Head(sorted)) THEN <<x>> \o sorted
    ELSE <<Head(sorted)>> \o InsertDesc(Tail(sorted), x)

\* list.sort(key=(confidence, timestamp), reverse=True): descending, and
\* stable (entries with equal keys keep their order)
RECURSIVE SortDesc(_)
SortDesc(seq) ==
    IF seq = <<>> THEN <<>>
    ELSE InsertDesc(SortDesc(SubSeq(seq, 1, Len(seq) - 1)), seq[Len(seq)])

InProjectOnly(x, project) == x.project = project

\* the project test of query_learnings: the project asked for, or none
InProject(x, project) == x.project \in {"", project}

\* query_learnings at time t. Without a filter, results is the learnings
\* list of the cached snapshot itself, and results.sort sorts that list
QueryLearningsF(st, category, project, limit, t) ==
    LET l == LoadMemory(st, t)
        memory == l.memory
        byCategory == Truthy(category) /\ category # "all"
        byProject == Truthy(project)
        InCategory(x) == x.category = category
        Scoped(x) == InProject(x, project)
        r1 == IF byCategory THEN SelectSeq(memory.learnings, InCategory)
              ELSE memory.learnings
        r2 == IF byProject THEN SelectSeq(r1, Scoped) ELSE r1
        sorted == SortDesc(r2)
        st1 == IF byCategory \/ byProject THEN l.st
               ELSE [l.st EXCEPT !.cache.learnings = sorted]
    IN  IF l.raised THEN Raises(l.st, l.error)
        ELSE Returns(st1, SliceTo(sorted, limit))

\* get_corrections at time t
GetCorrectionsF(st, category, limit, t) ==
    LET l == LoadMemory(st, t)
        memory == l.memory
        InCategory(x) == x.category = category
        results == IF Truthy(category) THEN SelectSeq(memory.corrections, InCategory)
                   ELSE memory.corrections
    IN  IF l.raised THEN Raises(l.st, l.error)
        ELSE Returns(l.st, SliceFrom(results, 0 - limit))

ArchitectureWords == {"architect", "design", "pattern", "schema", "tenant", "microservice"}
DebuggingWords == {"bug", "debug", "error", "fix", "crash", "exception"}
DevopsWords == {"docker", "kubernetes", "ci/cd", "deploy", "npm", "pip", "maven"}
SecurityWords == {"security", "auth", "encrypt", "token", "csrf", "xss"}
TestingWords == {"test", "mock", "assert", "coverage", "tdd"}
PerformanceWords == {"perf", "optim", "cache", "latency", "throughput"}

\* _detect_category
DetectCategory(text) ==
    LET text_lower == Lower(text)
        any(words) == \E w \in words : Contains(text_lower, w)
    IN  CASE any(ArchitectureWords) -> "architecture"
          [] ~any(ArchitectureWords) /\ any(DebuggingWords) -> "debugging"
          [] ~any(ArchitectureWords \cup DebuggingWords) /\ any(DevopsWords) -> "devops"
          [] ~any(ArchitectureWords \cup DebuggingWords \cup DevopsWords)
             /\ any(SecurityWords) -> "security"
          [] ~any(ArchitectureWords \cup DebuggingWords \cup DevopsWords
                  \cup SecurityWords) /\ any(TestingWords) -> "testing"
          [] ~any(ArchitectureWords \cup DebuggingWords \cup DevopsWords
                  \cup SecurityWords \cup TestingWords)
             /\ any(PerformanceWords) -> "performance"
          [] OTHER -> "code"

\* line.strip().lstrip("-*").strip()
CleanLine(line) == Strip(LStrip(Strip(line), {"-", "*"}))

\* whether bulk_push_learnings passes the line on to add_learning
Qualifies(line) == StrLen(CleanLine(line)) >= MIN_BULK_LINE

BULK_CONFIDENCE == 75

RECURSIVE BulkLoop(_, _, _, _, _, _, _)
\* the loop of bulk_push_learnings from line i on, count lines counted so far;
\* outs[i] is how the write of line i goes should it come to one
BulkLoop(st, lines, i, count, source_project, t, outs) ==
    IF i > Len(lines) THEN Returns(st, count)
    ELSE IF ~Qualifies(lines[i])
    THEN BulkLoop(st, lines, i + 1, count, source_project, t, outs)
    ELSE LET line == CleanLine(lines[i])
             r == AddLearningF(st, source_project[1], DetectCategory(line), line,
                               source_project[2], BULK_CONFIDENCE, t, outs[i])
         IN  IF r.raised THEN r
             ELSE BulkLoop(r.st, lines, i + 1,
                           IF r.result.prefix = "L" THEN count + 1 ELSE count,
                           source_project, t, outs)

\* bulk_push_learnings at time t; lines is the text split at line breaks
BulkPushLearningsF(st, lines, source, project, t, outs) ==
    BulkLoop(st, lines, 1, 0, <<source, project>>, t, outs)

----------------------------------------------------------------------------
(* Store calls as actions.                                                 *)

\* cap on the number of learnings in a snapshot
MaxLearnings == 2
\* cap on the number of corrections in a snapshot
MaxCorrections == 2
\* cap on statistics.total_calls
MaxCalls == 2
\* cap on the clock, in cache lifetimes
MaxTicks == 1
\* cap on the number of writes that fail in one run
MaxFaults == 1

Untracked ==
    [tracked |-> FALSE, keys |-> <<>>, ids |-> <<>>, corrs |-> <<>>, dupAt |-> 0]

\* the call raised because its write failed
WriteFailed(r) == r.raised /\ r.result = "OSError"

\* the call leaves the store r.st and returns (or raises) r.result
ApplyStore(r, op, arg) ==
    /\ memory_cache' = r.st.cache
    /\ cache_timestamp' = r.st.ts
    /\ file' = r.st.file
    /\ tmp' = r.st.tmp
    /\ backup' = r.st.backup
    /\ ret' = [op |-> op, sid |-> None, arg |-> arg, result |-> r.result,
               raised |-> r.raised]
    /\ WriteFailed(r) => faults < MaxFaults
    /\ faults' = IF WriteFailed(r) THEN faults + 1 ELSE faults
    /\ UNCHANGED <<sessVars, now, peer_cache, peer_timestamp>>

\* the snapshot a call made now would load, if load_memory would return
Loadable == ~LoadMemory(Store, now).raised
Loaded == LoadMemory(Store, now).memory

Range(seq) == {seq[i] : i \in 1..Len(seq)}

AddLearning(source, category, content, project, confidence, outcome) ==
    LET r == AddLearningF(Store, source, category, content, project,
                          confidence, now, outcome)
        key == <<category, Normalized(content)>>
        wrote == Loadable /\ Duplicates(Loaded, category, content) = {}
    IN  /\ wrote => Len(Loaded.learnings) < MaxLearnings
        /\ ~wrote => outcome = "ok"
        /\ ApplyStore(r, "add_learning",
                      [category |-> category, content |-> content,
                       project |-> project,
                       before |-> IF Loadable THEN Len(Loaded.learnings) ELSE 0])
        /\ hist' = IF r.raised \/ ~hist.tracked THEN Untracked
                   ELSE IF key \in Range(hist.keys)
                   THEN [hist EXCEPT !.dupAt = IF @ = 0 THEN Len(hist.keys) ELSE @]
                   ELSE [hist EXCEPT !.keys = Append(@, key),
                                     !.ids = Append(@, r.result)]

AddCorrection(corrector, original_claim, correction, category, outcome) ==
    LET r == AddCorrectionF(Store, corrector, original_claim, correction,
                            category, now, outcome)
    IN  /\ Loadable => Len(Loaded.corrections) < MaxCorrections
        /\ ~Loadable => outcome = "ok"
        /\ ApplyStore(r, "add_correction", None)
        /\ hist' = IF r.raised \/ ~hist.tracked THEN Untracked
                   ELSE [hist EXCEPT !.corrs = Append(@, r.result)]

UpdateProjectContext(project, tech_stack, summary, outcome) ==
    LET r == UpdateProjectContextF(Store, project, tech_stack, summary, now, outcome)
    IN  /\ ~Loadable => outcome = "ok"
        /\ ApplyStore(r, "update_project_context",
                      [project |-> project, tech_stack |-> tech_stack,
                       summary |-> summary])
        /\ hist' = IF r.raised THEN Untracked ELSE hist

RecordCall(tool_name, outcome) ==
    LET r == RecordCallF(Store, tool_name, now, outcome)
    IN  /\ Loadable => Loaded.statistics.total_calls < MaxCalls
        /\ ~Loadable => outcome = "ok"
        /\ ApplyStore(r, "record_call", tool_name)
        /\ hist' = IF r.raised THEN Untracked ELSE hist

QueryLearnings(category, project, limit) ==
    LET r == QueryLearningsF(Store, category, project, limit, now)
    IN  /\ ApplyStore(r, "query_learnings",
                      [category |-> category, project |-> project,
                       limit |-> limit])
        /\ UNCHANGED hist

GetCorrections(category, limit) ==
    LET r == GetCorrectionsF(Store, category, limit, now)
    IN  /\ ApplyStore(r, "get_corrections",
                      [category |-> category, limit |-> limit])
        /\ UNCHANGED hist

BulkPushLearnings(lines, source, project, outs) ==
    LET r == BulkPushLearningsF(Store, lines, source, project, now, outs)
    IN  /\ r.st.cache # NoCache => Len(r.st.cache.learnings) <= MaxLearnings
        /\ ApplyStore(r, "bulk_push_learnings",
                      [lines |-> lines,
                       before |-> IF Loadable THEN Len(Loaded.learnings) ELSE 0])
        /\ hist' = Untracked

\* how a load_memory call made now finds the cache
CacheState ==
    IF memory_cache = NoCache THEN "cold"
    ELSE IF (now - cache_timestamp) < CACHE_TTL THEN "fresh" ELSE "stale"

\* a direct load_memory call (get_memory_stats and the queries make one)
Load ==
    LET l == LoadMemory(Store, now)
    IN  /\ ApplyStore(IF l.raised THEN Raises(l.st, l.error)
                      ELSE Returns(l.st, l.memory), "load_memory", CacheState)
        /\ UNCHANGED hist

\* save_memory(load_memory()): a caller saves the snapshot as loaded
SaveLoaded(outcome) ==
    LET l == LoadMemory(Store, now)
        r == IF l.raised THEN Raises(l.st, l.error)
             ELSE Saved(SaveMemory(l.st, l.memory, now, outcome), None)
    IN  /\ ~Loadable => outcome = "ok"
        /\ ApplyStore(r, "save_loaded", None)
        /\ hist' = IF r.raised THEN Untracked ELSE hist

\* the store as a call of the second server process finds it: the files are
\* shared, the cache is its own
PeerStore == [Store EXCEPT !.cache = peer_cache, !.ts = peer_timestamp]

\* add_learning called in the second server process
PeerAddLearning(source, category, content, project, confidence, outcome) ==
    LET r == AddLearningF(PeerStore, source, category, content, project,
                          confidence, now, outcome)
        l == LoadMemory(PeerStore, now)
        wrote == ~l.raised /\ Duplicates(l.memory, category, content) = {}
    IN  /\ wrote => Len(l.memory.learnings) < MaxLearnings
        /\ ~wrote => outcome = "ok"
        /\ peer_cache' = r.st.cache
        /\ peer_timestamp' = r.st.ts
        /\ file' = r.st.file
        /\ tmp' = r.st.tmp
        /\ backup' = r.st.backup
        /\ ret' = [op |-> "peer_add_learning", sid |-> None,
                   arg |-> [category |-> category, content |-> content],
                   result |-> r.result, raised |-> r.raised]
        /\ WriteFailed(r) => faults < MaxFaults
        /\ faults' = IF WriteFailed(r) THEN faults + 1 ELSE faults
        /\ hist' = Untracked
        /\ UNCHANGED <<sessVars, now, memory_cache, cache_timestamp>>

\* the snapshot file is damaged or removed behind the server's back; doc is
\* what load_memory then finds at MEMORY_FILE
Corrupt(doc) ==
    /\ file # doc
    /\ file' = doc
    /\ hist' = Untracked
    /\ ret' = [op |-> "corrupt", sid |-> None, arg |-> None, result |-> None,
               raised |-> FALSE]
    /\ UNCHANGED <<sessVars, now, tmp, backup, memory_cache, cache_timestamp,
                   peer_cache, peer_timestamp, faults>>

\* time passes
Tick(d) ==
    /\ now + d <= MaxTicks * CACHE_TTL
    /\ now' = now + d
    /\ UNCHANGED <<sessVars, storeVars, ret>>

\* memory.initialize at time t: an initial snapshot is written if none exists
InitializeF(st, t, outcome) ==
    IF st.file = Missing
    THEN LET w == WriteMemoryFile(st, InitialMemory(t), outcome)
         IN  [st |-> w.st, result |-> IF w.raised THEN "OSError" ELSE None,
              raised |-> w.raised]
    ELSE Returns(st, None)

\* the server process ends and a new one starts (server.py:111-112)
Restart(outcome) ==
    LET r == InitializeF([Store EXCEPT !.cache = NoCache, !.ts = 0], now, outcome)
    IN  /\ file = Missing \/ outcome = "ok"
        /\ memory_cache' = r.st.cache
        /\ cache_timestamp' = r.st.ts
        /\ file' = r.st.file
        /\ tmp' = r.st.tmp
        /\ backup' = r.st.backup
        /\ ACTIVE_SESSIONS' = <<>>
        /\ ret' = [op |-> "restart", sid |-> None, arg |-> memory_cache,
                   result |-> r.result, raised |-> r.raised]
        /\ r.raised => faults < MaxFaults
        /\ faults' = IF r.raised THEN faults + 1 ELSE faults
        /\ UNCHANGED <<archive, usedIds, markers, seen, inflight, now, hist,
                       peer_cache, peer_timestamp>>

----------------------------------------------------------------------------
(* The memory store on its own.                                            *)

SampleContents ==
    {<<Run("a", 10)>>,
     <<Run(" ", 2), Run("A", 10), Run(" ", 1)>>,
     <<Run("b", 10)>>}

SampleLines ==
    {<<<<Run("-", 1), Run(" ", 1), Run("Docker", 6), Run("a", 10)>>,
       <<Run("*", 1), Run(" ", 1), Run("docker", 6), Run("A", 10), Run(" ", 2)>>>>,
     <<<<Run("-", 1), Run(" ", 1), Run("fix", 3)>>,
       <<Run("Fix", 3), Run("b", 12)>>>>,
     <<<<Run("a", 10)>>, <<Run("b", 15)>>>>}

\* every write works, or the write for one line fails
BulkOutcomes(lines) ==
    {[i \in 1..Len(lines) |-> "ok"]}
    \cup {[i \in 1..Len(lines) |-> IF i = k THEN "replace_fails" ELSE "ok"] :
            k \in 1..Len(lines)}

InitStore ==
    /\ ACTIVE_SESSIONS = <<>>
    /\ archive = <<>>
    /\ usedIds = {}
    /\ markers = <<>>
    /\ seen = <<>>
    /\ inflight = Idle
    /\ ret = [op |-> "initialize", sid |-> None, arg |-> None, result |-> None]
    /\ now = 0
    /\ file = Json(InitialMemory(0))
    /\ tmp = Missing
    /\ backup = Missing
    /\ memory_cache = NoCache
    /\ cache_timestamp = 0
    /\ peer_cache = NoCache
    /\ peer_timestamp = 0
    /\ hist = [tracked |-> TRUE, keys |-> <<>>, ids |-> <<>>, corrs |-> <<>>,
               dupAt |-> 0]
    /\ faults = 0

\* learnings are stored and read back while time passes, writes fail and
\* the server restarts
NextStore ==
    \/ \E content \in SampleContents, outcome \in WriteOutcomes :
          AddLearning("grok", "code", content, "", 80, outcome)
    \/ Load
    \/ Tick(CACHE_TTL)
    \/ Restart("ok")

Spec == InitStore /\ [][NextStore]_vars

\* the four mutating operations, every one of whose writes may fail
NextOps ==
    \/ \E content \in {<<Run("a", 10)>>, <<Run("b", 10)>>},
          outcome \in WriteOutcomes :
          AddLearning("grok", "code", content, "", 80, outcome)
    \/ \E outcome \in WriteOutcomes :
          AddCorrection("claude", <<Run("a", 10)>>, <<Run("b", 10)>>, "general", outcome)
    \/ \E outcome \in WriteOutcomes :
          UpdateProjectContext("p", "python", "", outcome)
    \/ \E outcome \in WriteOutcomes : RecordCall("ask_grok", outcome)

SpecOps == InitStore /\ [][NextOps]_vars

\* the most learnings and corrections a file from earlier runs holds
MaxStored == 3

Confidences == {50, 90}
Projects == {"", "proj-a", "proj-b"}

\* the snapshot after n add_learning calls of an earlier run, one per tick
\* of the clock, the last one just before this run started; the second
\* learning is on debugging, the others on code
StoredLearnings(n, conf, proj) ==
    LET learnings == [i \in 1..n |->
                        [id |-> FormatId("L", i), timestamp |-> i - n - 1,
                         source |-> "grok", project |-> proj[i],
                         category |-> IF i = 2 THEN "debugging" ELSE "code",
                         content |-> <<Run("a", 10 + i)>>,
                         confidence |-> conf[i]]]
    IN  [InitialMemory(0 - n - 1) EXCEPT
            !.learnings = learnings,
            !.last_updated = 0 - 1,
            !.statistics.learnings_count = n]

\* the server starts on a memory file left by an earlier run
InitQuery ==
    /\ ACTIVE_SESSIONS = <<>>
    /\ archive = <<>>
    /\ usedIds = {}
    /\ markers = <<>>
    /\ seen = <<>>
    /\ inflight = Idle
    /\ ret = [op |-> "initialize", sid |-> None, arg |-> None, result |-> None]
    /\ now = 0
    /\ \E n \in 0..MaxStored :
          \E conf \in [1..n -> Confidences], proj \in [1..n -> Projects] :
             file = Json(StoredLearnings(n, conf, proj))
    /\ tmp = Missing
    /\ backup = Missing
    /\ memory_cache = NoCache
    /\ cache_timestamp = 0
    /\ peer_cache = NoCache
    /\ peer_timestamp = 0
    /\ hist = Untracked
    /\ faults = 0

\* the learnings are queried with and without filters
NextQuery ==
    \E category \in {None, "all", "code"}, project \in {None, "proj-a", "proj-b"},
       limit \in {0, 2, MaxStored} :
        QueryLearnings(category, project, limit)

SpecQuery == InitQuery /\ [][NextQuery]_vars

\* A store that already holds learnings of several projects, to which
\* learnings are added for a project and which is then queried by project.
InitScope ==
    /\ ACTIVE_SESSIONS = <<>>
    /\ archive = <<>>
    /\ usedIds = {}
    /\ markers = <<>>
    /\ seen = <<>>
    /\ inflight = Idle
    /\ ret = [op |-> "initialize", sid |-> None, arg |-> None, result |-> None]
    /\ now = 0
    /\ \E n \in 0..(MaxLearnings - 1) :
          \E conf \in [1..n -> Confidences], proj \in [1..n -> Projects] :
             file = Json(StoredLearnings(n, conf, proj))
    /\ tmp = Missing
    /\ backup = Missing
    /\ memory_cache = NoCache
    /\ cache_timestamp = 0
    /\ peer_cache = NoCache
    /\ peer_timestamp = 0
    /\ hist = Untracked
    /\ faults = 0

NextScope ==
    \/ \E content \in {<<Run("a", 11)>>, <<Run("b", 10)>>},
          project \in {"proj-a", "proj-b"} :
           AddLearning("grok", "code", content, project, 80, "ok")
    \/ \E project \in {"proj-a", "proj-b"}, limit \in {1, MaxLearnings} :
           QueryLearnings(None, project, limit)

SpecScope == InitScope /\ [][NextScope]_vars

CorrectionCategories == {"general", "code"}

\* the snapshot after n add_correction calls of an earlier run
StoredCorrections(n, cat) ==
    LET corrections == [i \in 1..n |->
                          [id |-> FormatId("C", i), timestamp |-> i - n - 1,
                           corrector |-> "claude",
                           original_claim |-> <<Run("a", 10 + i)>>,
                           correction |-> <<Run("b", 10 + i)>>,
                           category |-> cat[i]]]
    IN  [InitialMemory(0 - n - 1) EXCEPT
            !.corrections = corrections,
            !.last_updated = 0 - 1,
            !.statistics.corrections_count = n]

\* the server starts on a memory file with corrections of an earlier run
InitCorr ==
    /\ ACTIVE_SESSIONS = <<>>
    /\ archive = <<>>
    /\ usedIds = {}
    /\ markers = <<>>
    /\ seen = <<>>
    /\ inflight = Idle
    /\ ret = [op |-> "initialize", sid |-> None, arg |-> None, result |-> None]
    /\ now = 0
    /\ \E n \in 0..MaxStored :
          \E cat \in [1..n -> CorrectionCategories] :
             file = Json(StoredCorrections(n, cat))
    /\ tmp = Missing
    /\ backup = Missing
    /\ memory_cache = NoCache
    /\ cache_timestamp = 0
    /\ peer_cache = NoCache
    /\ peer_timestamp = 0
    /\ hist = Untracked
    /\ faults = 0

\* the corrections are read with and without a category, for every limit
NextCorr ==
    \E category \in {None} \cup CorrectionCategories, limit \in 0..MaxStored + 1 :
        GetCorrections(category, limit)

SpecCorr == InitCorr /\ [][NextCorr]_vars

Tools == {"ask_grok", "grok_review"}

\* calls of two tools are counted in a store that also takes learnings and
\* corrections; writes may fail
NextCalls ==
    \/ \E tool \in Tools, outcome \in WriteOutcomes : RecordCall(tool, outcome)
    \/ AddLearning("grok", "code", <<Run("a", 10)>>, "", 80, "ok")
    \/ AddCorrection("claude", <<Run("a", 10)>>, <<Run("b", 10)>>, "general", "ok")

SpecCalls == InitStore /\ [][NextCalls]_vars

\* Calls recorded for two tools with writes that succeed and fail, while
\* the cache expires and the server restarts.
NextTotals ==
    \/ \E tool \in Tools, outcome \in WriteOutcomes : RecordCall(tool, outcome)
    \/ Load
    \/ Tick(CACHE_TTL)
    \/ Restart("ok")

SpecTotals == InitStore /\ [][NextTotals]_vars

\* The server's two modules side by side: sessions are created and ended
\* while the store is written.
NextMixed ==
    /\ UNCHANGED inflight
    /\ \/ CreateSession("s1", "task", "p", "")
       \/ \E sid \in {"s1", "s2"}, outcome \in {"ok", "dump_fails"} :
             EndSession(sid, outcome)
       \/ AddLearning("grok", "code", <<Run("a", 10)>>, "p", 80, "ok")
       \/ AddCorrection("claude", <<Run("a", 10)>>, <<Run("b", 10)>>, "general", "ok")
       \/ RecordCall("ask_grok", "ok")
       \/ UpdateProjectContext("p", "python", "", "ok")
       \/ Tick(CACHE_TTL)

SpecMixed == InitStore /\ [][NextMixed]_vars

\* the contexts of two projects are created and updated, with and without
\* a tech_stack and a summary, while time passes
NextCtx ==
    \/ \E project \in {"p", "q"}, tech_stack \in {"", "python", "rust"},
          summary \in {"", "api"}, outcome \in {"ok", "replace_fails"} :
          UpdateProjectContext(project, tech_stack, summary, outcome)
    \/ Tick(CACHE_TTL)

SpecCtx == InitStore /\ [][NextCtx]_vars

\* session summaries are pushed in bulk next to single learnings
NextBulk ==
    \/ \E lines \in SampleLines :
          \E outs \in BulkOutcomes(lines) :
              BulkPushLearnings(lines, "claude", "", outs)
    \/ \E content \in SampleContents :
          AddLearning("claude", "general", content, "", 75, "ok")
    \/ Tick(CACHE_TTL)

SpecBulk == InitStore /\ [][NextBulk]_vars

\* learnings and corrections are added to the empty store and every write
\* works
NextIds ==
    \/ \E category \in {"code", "general"}, content \in SampleContents :
          AddLearning("grok", category, content, "", 80, "ok")
    \/ AddCorrection("claude", <<Run("a", 10)>>, <<Run("b", 10)>>, "general", "ok")

SpecIds == InitStore /\ [][NextIds]_vars

\* every write works; the server restarts and the cache expires between
\* the calls
NextPersist ==
    \/ \E content \in {<<Run("a", 10)>>, <<Run("b", 10)>>} :
          AddLearning("grok", "code", content, "", 80, "ok")
    \/ AddCorrection("claude", <<Run("a", 10)>>, <<Run("b", 10)>>, "general", "ok")
    \/ RecordCall("ask_grok", "ok")
    \/ Load
    \/ SaveLoaded("ok")
    \/ Tick(CACHE_TTL)
    \/ Restart("ok")

SpecPersist == InitStore /\ [][NextPersist]_vars

\* the snapshot file is damaged or removed between the calls
NextHeal ==
    \/ \E content \in {<<Run("a", 10)>>, <<Run("b", 10)>>} :
          AddLearning("grok", "code", content, "", 80, "ok")
    \/ Load
    \/ \E doc \in {Missing, Truncated, Undecodable} : Corrupt(doc)
    \/ Tick(CACHE_TTL)
    \/ Restart("ok")

SpecHeal == InitStore /\ [][NextHeal]_vars

PeerContents == {<<Run("a", 10)>>, <<Run("b", 10)>>, <<Run("c", 10)>>}

\* two server processes on the same memory directory, each handling one
\* call at a time
NextPeers ==
    \/ \E content \in PeerContents :
          AddLearning("grok", "code", content, "", 80, "ok")
    \/ \E content \in PeerContents :
          PeerAddLearning("grok", "code", content, "", 80, "ok")
    \/ Tick(CACHE_TTL)

SpecPeers == InitStore /\ [][NextPeers]_vars

----------------------------------------------------------------------------
(* The session automaton on its own: one session id, every kind of text.   *)

Topics == {"x", "y", "z"}

SampleTexts ==
    {<<Prose>>,
     <<Prose, Bracket("STATUS", "MAYBE", <<>>)>>,
     <<Prose, Bracket("STATUS", "AGREE", <<>>)>>,
     <<Bracket("status", "agree", <<>>), Prose>>,
     <<Prose, Bracket("STATUS", "DISAGREE", <<>>)>>,
     <<Bracket("STATUS", "Disagree", <<Attr("reason", "")>>)>>,
     <<Bracket("STATUS", "DISAGREE", <<Attr("REASON", "x")>>)>>,
     <<Bracket("STATUS", "DISAGREE", <<Attr("reason", "x")>>),
       Bracket("STATUS", "AGREE", <<>>)>>,
     <<Bracket("LEARNING", "AGREE", <<>>), Bracket("STATUS", "PROPOSAL", <<>>)>>,
     <<Bracket("STATUS", "PARTIAL", <<Attr("agree", "x"), Attr("disagree", "y")>>)>>,
     <<Prose, Bracket("STATUS", "NEED_INFO", <<Attr("question", "x")>>)>>}
    \cup {<<Prose, Bracket("STATUS", "DISAGREE", <<Attr("reason", t)>>)>> : t \in Topics}

InitSess ==
    /\ ACTIVE_SESSIONS = <<>>
    /\ archive = <<>>
    /\ usedIds = {}
    /\ markers = <<>>
    /\ seen = <<>>
    /\ inflight = Idle
    /\ ret = [op |-> "initialize", sid |-> None, arg |-> None, result |-> None]
    /\ now = 0
    /\ file = Json(InitialMemory(0))
    /\ tmp = Missing
    /\ backup = Missing
    /\ memory_cache = NoCache
    /\ cache_timestamp = 0
    /\ peer_cache = NoCache
    /\ peer_timestamp = 0
    /\ hist = [tracked |-> TRUE, keys |-> <<>>, ids |-> <<>>, corrs |-> <<>>,
               dupAt |-> 0]
    /\ faults = 0

NextSess ==
    /\ UNCHANGED inflight
    /\ \E sid \in {"s1"} :
          \/ CreateSession(sid, "task", "", "")
          \/ \E text \in SampleTexts : DetectConsensus(sid, text)
          \/ \E outcome \in {"ok", "open_fails", "dump_fails"} : EndSession(sid, outcome)

SpecSess == InitSess /\ [][NextSess]_vars

\* cap on the markers one session processes in the registry specification
MaxMarkers == 1

RegTexts ==
    {<<Prose>>,
     <<Prose, Bracket("STATUS", "AGREE", <<>>)>>,
     <<Prose, Bracket("STATUS", "NEED_INFO", <<Attr("question", "x")>>)>>}

\* every registry operation, on the id of a session that is created and
\* ended and on an id that never names a session
NextReg ==
    /\ UNCHANGED inflight
    /\ \/ CreateSession("s1", "task", "p", "")
       \/ \E sid \in {"s1", "s2"} :
             \/ \E role \in {"user", "assistant"} : AddTurn(sid, role, "m")
             \/ GetSession(sid)
             \/ GetHistory(sid)
             \/ \E text \in RegTexts :
                   /\ Live(sid) => seen[sid] < MaxMarkers
                   /\ DetectConsensus(sid, text)
             \/ \E outcome \in {"ok", "open_fails", "dump_fails"} :
                   EndSession(sid, outcome)
       \/ Tick(CACHE_TTL)

SpecReg == InitSess /\ [][NextReg]_vars

PairTexts ==
    {<<Prose, Bracket("STATUS", "AGREE", <<>>)>>,
     <<Prose, Bracket("STATUS", "DISAGREE", <<Attr("reason", "x")>>)>>}

\* two sessions side by side: each is created, given turns and markers,
\* and ended, in any interleaving with the other
NextPair ==
    /\ UNCHANGED inflight
    /\ \E sid \in {"s1", "s2"} :
          \/ CreateSession(sid, "task", sid, "")
          \/ AddTurn(sid, "assistant", "m")
          \/ \E text \in PairTexts :
                /\ Live(sid) => seen[sid] < MaxMarkers
                /\ DetectConsensus(sid, text)
          \/ \E outcome \in {"ok", "open_fails"} : EndSession(sid, outcome)

SpecPair == InitSess /\ [][NextPair]_vars

RaceTexts ==
    {<<Prose>>,
     <<Prose, Bracket("STATUS", "AGREE", <<>>)>>,
     <<Prose, Bracket("STATUS", "DISAGREE", <<>>)>>,
     <<Bracket("STATUS", "DISAGREE", <<Attr("REASON", "x")>>)>>,
     <<Bracket("STATUS", "PARTIAL", <<Attr("agree", "x"), Attr("disagree", "y")>>)>>,
     <<Prose, Bracket("STATUS", "NEED_INFO", <<Attr("question", "x")>>)>>}

\* a session is brought into some state, then two requests on it interleave
NextRace ==
    \/ /\ inflight = Idle
       /\ UNCHANGED inflight
       /\ \/ CreateSession("s1", "task", "", "")
          \/ \E text \in RaceTexts : DetectConsensus("s1", text)
    \/ \E text1, text2 \in RaceTexts : Arrive("s1", text1, text2)
    \/ \E i \in {1, 2} : Step(i)

SpecRace == InitSess /\ [][NextRace]_vars

\* the step just taken was detect_consensus on live session sid, and it
\* matched a marker of the given type
DetectStep(sid, type) ==
    /\ Live(sid)
    /\ now' = now
    /\ ret'.op = "detect_consensus"
    /\ ret'.sid = sid
    /\ ret'.arg.type = type

\* C1: detect_consensus on a live session with an AGREE marker adds one to
\* consecutive_agrees, zeroes consecutive_disagrees, and sets (and returns)
\* 'consensus' if consecutive_agrees is now >= 2 and 'active' otherwise; on
\* a fresh session the first AGREE gives 'active' with 1 and the second
\* 'consensus' with 2.
C1_AgreeStep ==
    [][\A sid \in DOMAIN ACTIVE_SESSIONS :
         DetectStep(sid, "AGREE") =>
           LET s == ACTIVE_SESSIONS[sid]
               t == ACTIVE_SESSIONS'[sid]
           IN  /\ t.consecutive_agrees = s.consecutive_agrees + 1
               /\ t.consecutive_disagrees = 0
               /\ t.status = IF t.consecutive_agrees >= 2
                             THEN "consensus" ELSE "active"
               /\ ret'.result = t.status
               /\ seen[sid] = 0 =>
                     t.status = "active" /\ t.consecutive_agrees = 1
               /\ (seen[sid] = 1 /\ markers[sid][1].type = "AGREE") =>
                     t.status = "consensus" /\ t.consecutive_agrees = 2]_vars

\* C1 witness: the second AGREE of a fresh session has returned 'consensus'
C1_Witness ==
    /\ ret.op = "detect_consensus"
    /\ ret.arg.type = "AGREE"
    /\ ret.result = "consensus"
    /\ seen[ret.sid] = 2
    /\ ACTIVE_SESSIONS[ret.sid].consecutive_agrees = 2

\* C2: detect_consensus on a live session with a DISAGREE marker zeroes
\* consecutive_agrees, adds one to consecutive_disagrees, sets (and returns)
\* 'persistent_disagreement' exactly when consecutive_disagrees is now >= 3
\* and the extracted reason is empty or equals the previous
\* last_disagree_topic, 'active' otherwise, and in both cases overwrites
\* last_disagree_topic with the extracted reason.
C2_DisagreeStep ==
    [][\A sid \in DOMAIN ACTIVE_SESSIONS :
         DetectStep(sid, "DISAGREE") =>
           LET s == ACTIVE_SESSIONS[sid]
               t == ACTIVE_SESSIONS'[sid]
               topic == ret'.arg.topic
           IN  /\ t.consecutive_agrees = 0
               /\ t.consecutive_disagrees = s.consecutive_disagrees + 1
               /\ (t.status = "persistent_disagreement") <=>
                     /\ t.consecutive_disagrees >= 3
                     /\ topic = "" \/ topic = s.last_disagree_topic
               /\ t.status \in {"persistent_disagreement", "active"}
               /\ ret'.result = t.status
               /\ t.last_disagree_topic = topic]_vars

\* C2 witness: a third DISAGREE in a row whose reason differs from the
\* recorded topic has left the session 'active'
C2_Witness ==
    /\ ret.op = "detect_consensus"
    /\ ret.arg.type = "DISAGREE"
    /\ ret.arg.topic # ""
    /\ ret.result = "active"
    /\ ACTIVE_SESSIONS[ret.sid].consecutive_disagrees >= 3

\* every marker a session has processed since its creation is a DISAGREE
AllDisagree(sid, n) ==
    /\ seen[sid] = n
    /\ \A i \in 1..n : markers[sid][i].type = "DISAGREE"

\* C3: on a fresh session, three DISAGREE markers in a row carrying one and
\* the same reason leave (and the third call returns)
\* 'persistent_disagreement'; three carrying pairwise different reasons
\* leave (and the third call returns) 'active'.
C3_ThreeDisagrees ==
    \A sid \in DOMAIN ACTIVE_SESSIONS :
        AllDisagree(sid, 3) =>
          LET m == markers[sid]
              s == ACTIVE_SESSIONS[sid]
              third == ret.op = "detect_consensus" /\ ret.sid = sid
                       /\ ret.arg.type = "DISAGREE"
          IN  /\ (m[1].topic \in Topics /\ m[2].topic = m[1].topic
                                       /\ m[3].topic = m[1].topic) =>
                    /\ s.status = "persistent_disagreement"
                    /\ third => ret.result = "persistent_disagreement"
              /\ ({m[1].topic, m[2].topic, m[3].topic} \subseteq Topics
                  /\ Cardinality({m[1].topic, m[2].topic, m[3].topic}) = 3) =>
                    /\ s.status = "active"
                    /\ third => ret.result = "active"

\* C3 witness: the third of three DISAGREE markers with the same reason
\* has been processed on a fresh session
C3_Witness ==
    /\ ret.op = "detect_consensus"
    /\ ret.arg.type = "DISAGREE"
    /\ AllDisagree(ret.sid, 3)
    /\ \A i \in 1..3 : markers[ret.sid][i].topic = "x"
    /\ ret.result = "persistent_disagreement"

----------------------------------------------------------------------------
(* Claims about the memory store.                                          *)

\* the step is a call of op (the clock stands still during a call)
CallStep(op) == ret'.op = op /\ now' = now

MutatingOps ==
    {"add_learning", "add_correction", "record_call", "update_project_context"}

\* the step is an add_learning call that returns, with the category and
\* content of the add_learning call before it, which returned too and after
\* which no other call was made
SameLearningAgain ==
    /\ ret.op = "add_learning"
    /\ ~ret.raised
    /\ CallStep("add_learning")
    /\ ~ret'.raised
    /\ ret'.arg.category = ret.arg.category
    /\ ret'.arg.content = ret.arg.content

\* C4: the second of two add_learning calls with the same category and
\* content returns the id the first returned, the two calls together add at
\* most one learning, and the second call leaves the snapshot file as it is
C4_Idempotent ==
    [][SameLearningAgain =>
        /\ ret'.result = ret.result
        /\ Len(memory_cache'.learnings) <= ret.arg.before + 1
        /\ file' = file]_vars

C5_Digits == <<"0001", "0002", "0003", "0004", "0005">>

\* C5: as long as every call has succeeded since the store was empty, the
\* i-th add_learning call with a new (category, normalized content) returned
\* the id L000i and the i-th add_correction call returned C000i
C5_SequentialIds ==
    hist.tracked =>
        /\ \A i \in 1..Len(hist.ids) :
              hist.ids[i] = [prefix |-> "L", digits |-> C5_Digits[i]]
        /\ \A i \in 1..Len(hist.corrs) :
              hist.corrs[i] = [prefix |-> "C", digits |-> C5_Digits[i]]

\* learnings and corrections have been added up to the caps, with a
\* duplicate insert made after the first learning and before the last
C5_Witness ==
    /\ hist.tracked
    /\ Len(hist.ids) = MaxLearnings
    /\ Len(hist.corrs) = MaxCorrections
    /\ hist.dupAt \in 1..(MaxLearnings - 1)

\* C6: a bulk_push_learnings call that returns, returns the number of
\* learnings it added to the snapshot
C6_CountsNewInserts ==
    [][(CallStep("bulk_push_learnings") /\ ~ret'.raised) =>
        ret'.result = Len(Loaded'.learnings) - Len(Loaded.learnings)]_vars

\* C7: in the snapshot file, learnings_count is the number of learnings and
\* corrections_count is the number of corrections
C7_CountsMatch ==
    file.kind = "json" =>
        /\ file.data.statistics.learnings_count = Len(file.data.learnings)
        /\ file.data.statistics.corrections_count = Len(file.data.corrections)

\* each of the four mutating operations has written the snapshot file
C7_Witness ==
    /\ file.kind = "json"
    /\ Len(file.data.learnings) >= 1
    /\ Len(file.data.corrections) >= 1
    /\ file.data.statistics.total_calls >= 1
    /\ "p" \in DOMAIN file.data.project_contexts

\* C8: every step leaves the snapshot file complete, and either as it was
\* or holding the whole snapshot that was saved, with the temporary file
\* renamed away; a write that stops before the rename leaves it as it was
C8_OldOrNew ==
    [][/\ file'.kind = "json"
       /\ \/ file' = file
          \/ file' = Json(memory_cache') /\ tmp' = Missing]_vars

\* after a snapshot was written, a later write stopped while the temporary
\* file was being written: the snapshot file holds the earlier snapshot
C8_Witness ==
    /\ tmp = Truncated
    /\ file.kind = "json"
    /\ Len(file.data.learnings) >= 1
    /\ memory_cache # NoCache
    /\ file # Json(memory_cache)

\* C9: a mutating operation that returns after changing the snapshot has
\* written that snapshot to the snapshot file
C9_NoSilentLoss ==
    [][(/\ ret'.op \in MutatingOps
        /\ now' = now
        /\ ~ret'.raised
        /\ memory_cache' # memory_cache) => file' = Json(memory_cache')]_vars

\* a mutating operation changed the snapshot, its write did not reach the
\* snapshot file, and it raised
C9_Witness ==
    /\ ret.op \in MutatingOps
    /\ ret.raised
    /\ memory_cache # NoCache
    /\ file # Json(memory_cache)

\* the cache is there and younger than CACHE_TTL
Fresh == memory_cache # NoCache /\ (now - cache_timestamp) < CACHE_TTL

\* C10: load_memory returns the cache and touches nothing when the cache is
\* fresh, and otherwise returns what the file holds and caches it with the
\* time of the load; a write that reaches the file caches what it wrote with
\* the time of the write; and load_memory returns what the load_memory call
\* before it returned if the cache is still fresh
C10_CacheWindow ==
    [][/\ (CallStep("load_memory") /\ Fresh) =>
            /\ ret'.result = memory_cache
            /\ UNCHANGED <<memory_cache, cache_timestamp, file, tmp, backup>>
       /\ (CallStep("load_memory") /\ ~Fresh /\ file.kind = "json") =>
            /\ ret'.result = file.data
            /\ memory_cache' = file.data
            /\ cache_timestamp' = now
            /\ file' = file
       /\ file' # file =>
            /\ memory_cache' = file'.data
            /\ cache_timestamp' = now
       /\ (CallStep("load_memory") /\ Fresh /\ ret.op = "load_memory") =>
            ret'.result = ret.result]_vars

\* load_memory has returned a fresh cache that differs from the file
C10_Witness ==
    /\ ret.op = "load_memory"
    /\ Fresh
    /\ ret.result = memory_cache
    /\ file # Json(memory_cache)

\* the snapshot without its last_updated stamp
Content(memory) == [memory EXCEPT !.last_updated = 0]

\* C11: when every write has worked, the first load_memory call of a
\* restarted server returns the learnings, corrections and statistics the
\* server before it held when it ended, and save_memory(load_memory())
\* leaves in the file what was there but for last_updated
C11_RoundTrip ==
    [][/\ (/\ ret.op = "restart"
           /\ ret.arg # NoCache
           /\ faults = 0
           /\ CallStep("load_memory")) =>
            /\ ~ret'.raised
            /\ ret'.result.learnings = ret.arg.learnings
            /\ ret'.result.corrections = ret.arg.corrections
            /\ ret'.result.statistics = ret.arg.statistics
       /\ (/\ CallStep("save_loaded")
           /\ ~ret'.raised
           /\ faults = 0
           /\ file.kind = "json") =>
            /\ file'.kind = "json"
            /\ Content(file'.data) = Content(file.data)]_vars

\* a restarted server has loaded, with no cache, a snapshot that holds
\* learnings, corrections and calls
C11_Witness ==
    /\ ret.op = "load_memory"
    /\ ret.arg = "cold"
    /\ ~ret.raised
    /\ Len(ret.result.learnings) >= 1
    /\ Len(ret.result.corrections) >= 1
    /\ ret.result.statistics.total_calls >= 1

\* a snapshot as _create_initial_memory makes it
IsDefault(memory) ==
    /\ memory.learnings = <<>>
    /\ memory.corrections = <<>>
    /\ memory.statistics.total_calls = 0
    /\ memory.statistics.learnings_count = 0
    /\ memory.statistics.corrections_count = 0

\* the step is a load_memory call that goes to the file
ReadsFile == CallStep("load_memory") /\ ret'.arg # "fresh"

\* C12: a load_memory call that finds a file it cannot parse returns, moves
\* the file to the backup path, returns a default snapshot and leaves that
\* snapshot in the cache for the calls that follow
C12_SelfHealing ==
    [][(ReadsFile /\ file.kind \notin {"json", "missing"}) =>
        /\ ~ret'.raised
        /\ file' = Missing
        /\ backup' = file
        /\ IsDefault(ret'.result)
        /\ memory_cache' = ret'.result
        /\ cache_timestamp' = now]_vars

\* C13: a load_memory call that finds no file returns a default snapshot and
\* leaves the snapshot file, the temporary file and the backup as they are
C13_MissingNotWritten ==
    [][(ReadsFile /\ file = Missing) =>
        /\ ~ret'.raised
        /\ IsDefault(ret'.result)
        /\ UNCHANGED <<file, tmp, backup>>]_vars

\* load_memory has gone to the file, found none and returned
C13_Witness ==
    /\ ret.op = "load_memory"
    /\ ret.arg # "fresh"
    /\ ~ret.raised
    /\ file = Missing

\* the learnings of a snapshot file with the content, as add_learning
\* compares it
Holds(doc, content) ==
    /\ doc.kind = "json"
    /\ \E i \in 1..Len(doc.data.learnings) :
          Normalized(doc.data.learnings[i].content) = Normalized(content)

\* C14: when add_learning has returned in one server process and then
\* add_learning with another content returns in the other, the snapshot
\* file holds both learnings and the two ids differ
C14_NoLostUpdate ==
    [][(/\ ret.op = "add_learning"
        /\ ~ret.raised
        /\ ret'.op = "peer_add_learning"
        /\ now' = now
        /\ ~ret'.raised
        /\ Normalized(ret'.arg.content) # Normalized(ret.arg.content)) =>
        /\ ret'.result # ret.result
        /\ Holds(file', ret.arg.content)
        /\ Holds(file', ret'.arg.content)]_vars

\* the session after detect_consensus on the text
DetectOn(s, text) ==
    IF StatusMatch(text) = NoMatch THEN s ELSE Transition(s, StatusMatch(text))

\* the session after one request with reply a and then one with reply b
Serial(s, a, b) ==
    DetectOn(AddTurnTo(DetectOn(AddTurnTo(s, "assistant", a), a), "assistant", b), b)

Counters(s) == <<s.consecutive_agrees, s.consecutive_disagrees, s.status>>

BothDone == inflight # Idle /\ inflight.stage = <<"done", "done">>

\* C15: when two requests on a session, each add_turn(assistant) followed
\* by detect_consensus, have made their calls in any interleaving,
\* turn_count is up by two, both replies are in the history after what was
\* there, and counters and status are those of one of the two serial orders
C15_Serializable ==
    BothDone =>
        LET s == ACTIVE_SESSIONS[inflight.sid]
            base == inflight.base
            t == inflight.texts
            new == SubSeq(s.history, Len(base.history) + 1, Len(s.history))
        IN  /\ s.turn_count = base.turn_count + 2
            /\ SubSeq(s.history, 1, Len(base.history)) = base.history
            /\ \/ new = <<[role |-> "assistant", content |-> t[1]],
                          [role |-> "assistant", content |-> t[2]]>>
               \/ new = <<[role |-> "assistant", content |-> t[2]],
                          [role |-> "assistant", content |-> t[1]]>>
            /\ Counters(s) \in {Counters(Serial(base, t[1], t[2])),
                                 Counters(Serial(base, t[2], t[1]))}

\* the two requests have run interleaved, one detecting agreement and the
\* other disagreement, on a session that had counted an agreement
C15_Witness ==
    /\ BothDone
    /\ inflight.order = <<1, 2, 2, 1>>
    /\ inflight.base.consecutive_agrees = 1
    /\ StatusMatch(inflight.texts[1]).type = "AGREE"
    /\ StatusMatch(inflight.texts[2]).type = "DISAGREE"

\* the number of assistant entries of a history
Assistants(history) ==
    Cardinality({i \in 1..Len(history) : history[i].role = "assistant"})

\* C16: an add_turn call on a live session appends one entry with the role
\* given at the end of the history, adds one to turn_count if the role is
\* assistant and leaves it alone if the role is user; and after every step
\* the turn_count of a live session is the number of assistant entries of
\* its history
C16_TurnCount ==
    [][/\ (CallStep("add_turn") /\ Live(ret'.sid)) =>
            LET before == ACTIVE_SESSIONS[ret'.sid]
                after == ACTIVE_SESSIONS'[ret'.sid]
            IN  /\ after.history = Append(before.history,
                                          [role |-> ret'.arg, content |-> "m"])
                /\ ret'.arg = "user" => after.turn_count = before.turn_count
                /\ ret'.arg = "assistant" =>
                        after.turn_count = before.turn_count + 1
       /\ \A sid \in DOMAIN ACTIVE_SESSIONS' :
            ACTIVE_SESSIONS'[sid].turn_count =
                Assistants(ACTIVE_SESSIONS'[sid].history)]_vars

\* a live session holds a user turn followed by an assistant turn
C16_Witness ==
    /\ Live("s1")
    /\ Len(ACTIVE_SESSIONS["s1"].history) = 2
    /\ ACTIVE_SESSIONS["s1"].history[1].role = "user"
    /\ ACTIVE_SESSIONS["s1"].history[2].role = "assistant"
    /\ ACTIVE_SESSIONS["s1"].turn_count = 1

\* C17: an end_session call whose transcript write succeeds, on a live id,
\* removes that session and no other from the live registry, returns the
\* session record with every field it had (status and history included)
\* plus the end time, and stores exactly that record in the archive under
\* the session id, leaving the other transcripts alone; on an id that is
\* not live it returns None and changes neither the registry nor the archive
C17_EndSession ==
    [][(CallStep("end_session") /\ ret'.arg = "ok") =>
        LET sid == ret'.sid
        IN  IF Live(sid)
            THEN LET before == ACTIVE_SESSIONS[sid]
                     record == ret'.result
                 IN  /\ DOMAIN ACTIVE_SESSIONS' = DOMAIN ACTIVE_SESSIONS \ {sid}
                     /\ \A other \in DOMAIN ACTIVE_SESSIONS' :
                            ACTIVE_SESSIONS'[other] = ACTIVE_SESSIONS[other]
                     /\ DOMAIN record = DOMAIN before \cup {"ended"}
                     /\ record.ended = now
                     /\ \A field \in DOMAIN before : record[field] = before[field]
                     /\ DOMAIN archive' = DOMAIN archive \cup {sid}
                     /\ archive'[sid] = record
                     /\ \A other \in DOMAIN archive \ {sid} :
                            archive'[other] = archive[other]
            ELSE /\ ret'.result = None
                 /\ UNCHANGED <<ACTIVE_SESSIONS, archive>>]_vars

\* a session that had reached a status other than 'active' and held a
\* history was ended later than it was created, and its transcript is the
\* record returned
C17_Witness ==
    /\ ret.op = "end_session"
    /\ ret.arg = "ok"
    /\ ret.found
    /\ ret.sid \in DOMAIN archive
    /\ ~Live(ret.sid)
    /\ archive[ret.sid] = ret.result
    /\ ret.result.status = "needs_info"
    /\ Len(ret.result.history) = 2
    /\ ret.result.ended > ret.result.created

\* the id was handed out to a session that is no longer live
Ended(sid) == sid \in usedIds /\ ~Live(sid)

\* what an operation on an id that is not live answers
AbsentAnswer(r) ==
    CASE r.op = "add_turn" -> r.result = "ValueError"
      [] r.op = "detect_consensus" -> r.result = "error"
      [] r.op = "get_session" -> r.result = None
      [] r.op = "end_session" -> r.result = None
      [] r.op = "get_history" -> r.result = <<>>
      [] OTHER -> TRUE

\* C18: a session leaves the live registry only in an end_session call on
\* its id; once it has left, its id is not live in the next state, every
\* call on the id answers as for an absent session (add_turn ValueError,
\* detect_consensus 'error', get_session and end_session None, get_history
\* empty), and the archive holds its complete transcript, which the step
\* does not change
C18_Lifecycle ==
    [][\A sid \in usedIds :
         /\ (Live(sid) /\ sid \notin DOMAIN ACTIVE_SESSIONS') =>
                (CallStep("end_session") /\ ret'.sid = sid)
         /\ Ended(sid) =>
                /\ sid \notin DOMAIN ACTIVE_SESSIONS'
                /\ (ret'.sid = sid /\ now' = now) => AbsentAnswer(ret')
                /\ sid \in DOMAIN archive
                /\ archive[sid] # PartialFile
                /\ sid \in DOMAIN archive'
                /\ archive'[sid] = archive[sid]]_vars

\* the operations that take the id of a session
IdOps ==
    {"add_turn", "get_session", "get_history", "detect_consensus", "end_session"}

\* C19: an add_turn call on an id that names no live session raises
\* ValueError and leaves the registry, every live session in it and the
\* archive as they were; get_session, get_history, detect_consensus and
\* end_session on such an id return their normal answer for absence (None,
\* the empty history, 'error', None) and change nothing either
C19_AbsentId ==
    [][(ret'.op \in IdOps /\ now' = now /\ ~Live(ret'.sid)) =>
         /\ ret'.op = "add_turn" => ret'.result = "ValueError"
         /\ ret'.op = "get_session" => ret'.result = None
         /\ ret'.op = "get_history" => ret'.result = <<>>
         /\ ret'.op = "detect_consensus" => ret'.result = "error"
         /\ ret'.op = "end_session" => ret'.result = None
         /\ UNCHANGED <<ACTIVE_SESSIONS, archive>>]_vars

\* add_turn was called on an id that names no session while another
\* session was live and held a history
C19_Witness ==
    /\ ret.op = "add_turn"
    /\ ret.sid = "s2"
    /\ ret.result = "ValueError"
    /\ Live("s1")
    /\ Len(ACTIVE_SESSIONS["s1"].history) = 2

\* C20: a detect_consensus call on a live session with a text in which no
\* status marker is found leaves the whole session record (status, both
\* counters and last_disagree_topic included) and the rest of the registry
\* as they were and returns the status the session has; on an id that is
\* not live it returns 'error' and changes nothing in the registry
C20_NoMarkerFrame ==
    [][CallStep("detect_consensus") =>
         /\ ~Live(ret'.sid) =>
                /\ ret'.result = "error"
                /\ UNCHANGED <<ACTIVE_SESSIONS, archive>>
         /\ (Live(ret'.sid) /\ ret'.arg = NoMarker) =>
                /\ UNCHANGED <<ACTIVE_SESSIONS, archive>>
                /\ ret'.result = ACTIVE_SESSIONS[ret'.sid].status]_vars

\* a text without a marker was given for a session in persistent
\* disagreement on topic x
C20_Witness ==
    /\ ret.op = "detect_consensus"
    /\ ret.arg = NoMarker
    /\ Live(ret.sid)
    /\ ret.result = "persistent_disagreement"
    /\ ACTIVE_SESSIONS[ret.sid].consecutive_disagrees = 3
    /\ ACTIVE_SESSIONS[ret.sid].last_disagree_topic = "x"

\* the operations that act on one session
SessionOps == {"create_session", "add_turn", "detect_consensus", "end_session"}

\* C21: a create_session, add_turn, detect_consensus or end_session call on
\* one session id leaves every other live session live and its whole record
\* (history, turn_count, status, both counters and last_disagree_topic
\* included) as it was
C21_Independent ==
    [][(ret'.op \in SessionOps /\ now' = now) =>
         \A other \in DOMAIN ACTIVE_SESSIONS \ {ret'.sid} :
            /\ other \in DOMAIN ACTIVE_SESSIONS'
            /\ ACTIVE_SESSIONS'[other] = ACTIVE_SESSIONS[other]]_vars

\* two sessions are live in different states, and the last call was made
\* on the second
C21_Witness ==
    /\ Live("s1")
    /\ Live("s2")
    /\ ret.op = "detect_consensus"
    /\ ret.sid = "s2"
    /\ ACTIVE_SESSIONS["s1"].consecutive_agrees = 1
    /\ ACTIVE_SESSIONS["s1"].turn_count = 1
    /\ ACTIVE_SESSIONS["s2"].consecutive_disagrees = 1
    /\ ACTIVE_SESSIONS["s2"].turn_count = 0

\* C22: detect_consensus on a live session with a PARTIAL or a PROPOSAL
\* marker sets both counters to 0 and the status to 'active', and returns
\* it, whatever the counters and the status were before
C22_ResetStep ==
    [][\A sid \in DOMAIN ACTIVE_SESSIONS :
         (DetectStep(sid, "PARTIAL") \/ DetectStep(sid, "PROPOSAL")) =>
           LET t == ACTIVE_SESSIONS'[sid]
           IN  /\ t.consecutive_agrees = 0
               /\ t.consecutive_disagrees = 0
               /\ t.status = "active"
               /\ ret'.result = "active"]_vars

\* a PARTIAL marker came right after two AGREE markers, that is on a
\* session in 'consensus'
C22_Witness ==
    /\ ret.op = "detect_consensus"
    /\ ret.arg.type = "PARTIAL"
    /\ Live(ret.sid)
    /\ Len(markers[ret.sid]) = 3
    /\ markers[ret.sid][1].type = "AGREE"
    /\ markers[ret.sid][2].type = "AGREE"
    /\ markers[ret.sid][3].type = "PARTIAL"
    /\ ACTIVE_SESSIONS[ret.sid].status = "active"

\* C23: detect_consensus on a live session with a NEED_INFO marker sets the
\* status to 'needs_info', returns it, and leaves consecutive_agrees,
\* consecutive_disagrees and last_disagree_topic as they were
C23_NeedInfoStep ==
    [][\A sid \in DOMAIN ACTIVE_SESSIONS :
         DetectStep(sid, "NEED_INFO") =>
           LET s == ACTIVE_SESSIONS[sid]
               t == ACTIVE_SESSIONS'[sid]
           IN  /\ t.status = "needs_info"
               /\ ret'.result = "needs_info"
               /\ t.consecutive_agrees = s.consecutive_agrees
               /\ t.consecutive_disagrees = s.consecutive_disagrees
               /\ t.last_disagree_topic = s.last_disagree_topic]_vars

\* a NEED_INFO marker came after two DISAGREE markers on topic x, and the
\* counter and the topic are still there
C23_Witness ==
    /\ ret.op = "detect_consensus"
    /\ ret.arg.type = "NEED_INFO"
    /\ Live(ret.sid)
    /\ ACTIVE_SESSIONS[ret.sid].status = "needs_info"
    /\ ACTIVE_SESSIONS[ret.sid].consecutive_disagrees = 2
    /\ ACTIVE_SESSIONS[ret.sid].last_disagree_topic = "x"

\* the learning passes the filters of a query: the category asked for
\* (none, or 'all', asks for every category) and the project asked for or
\* no project at all
Selects(l, category, project) ==
    /\ category \in {None, "", "all"} \/ l.category = category
    /\ project \in {None, ""} \/ l.project \in {"", project}

\* a comes no later than b in the descending order by confidence, then by
\* timestamp
NotAfter(a, b) ==
    \/ a.confidence > b.confidence
    \/ a.confidence = b.confidence /\ a.timestamp >= b.timestamp

\* C24: a query_learnings call with limit >= 0 returns min(limit, number
\* of learnings passing the filters) of the learnings passing the filters,
\* none of them twice, in descending order of (confidence, timestamp):
\* higher confidence first whatever the timestamps, and the more recent
\* first among equal confidences; and no learning left out would come
\* strictly before one that is returned
C24_QueryOrder ==
    [][(CallStep("query_learnings") /\ ~ret'.raised /\ ret'.arg.limit >= 0) =>
         LET all == Loaded.learnings
             passing == {all[k] : k \in {i \in 1..Len(all) :
                            Selects(all[i], ret'.arg.category, ret'.arg.project)}}
             r == ret'.result
             n == Cardinality(passing)
         IN  /\ Len(r) <= ret'.arg.limit
             /\ Len(r) = IF ret'.arg.limit < n THEN ret'.arg.limit ELSE n
             /\ \A i \in 1..Len(r) : r[i] \in passing
             /\ \A i, j \in 1..Len(r) : i < j =>
                    /\ r[i] # r[j]
                    /\ NotAfter(r[i], r[j])
             /\ \A x \in passing \ Range(r) :
                    \A i \in 1..Len(r) : NotAfter(r[i], x)]_vars

\* the stored confidences are 90, 50, 90 with increasing timestamps and an
\* unfiltered query returned the third, the first and the second learning
C24_Witness ==
    /\ ret.op = "query_learnings"
    /\ ~ret.raised
    /\ ret.arg.category = None
    /\ ret.arg.project = None
    /\ Len(ret.result) = 3
    /\ ret.result[1].id = FormatId("L", 3) /\ ret.result[1].confidence = 90
    /\ ret.result[2].id = FormatId("L", 1) /\ ret.result[2].confidence = 90
    /\ ret.result[3].id = FormatId("L", 2) /\ ret.result[3].confidence = 50
    /\ ret.result[1].timestamp > ret.result[2].timestamp
    /\ ret.result[3].timestamp > ret.result[2].timestamp

\* C25: a query_learnings call for a non-empty project returns no learning
\* scoped to another project, and, when the limit is not below the number
\* of stored learnings, returns exactly the learnings of the category
\* asked for whose project is the one asked for or empty; so a learning
\* without project is returned whatever project is asked for
C25_ProjectScope ==
    [][(/\ CallStep("query_learnings")
        /\ ~ret'.raised
        /\ ret'.arg.project \notin {None, ""}) =>
         LET all == Range(Loaded.learnings)
             P == ret'.arg.project
             inCategory == {l \in all : \/ ret'.arg.category \in {None, "", "all"}
                                        \/ l.category = ret'.arg.category}
             r == Range(ret'.result)
         IN  /\ \A l \in r : l.project = P \/ l.project = ""
             /\ ret'.arg.limit >= Cardinality(all) =>
                    /\ r = {l \in inCategory : l.project = P \/ l.project = ""}
                    /\ \A l \in inCategory : l.project = "" => l \in r]_vars

\* the store holds a learning without project, one of proj-a and one of
\* proj-b, and a query for proj-b returned the first and the last
C25_Witness ==
    /\ ret.op = "query_learnings"
    /\ ~ret.raised
    /\ ret.arg.project = "proj-b"
    /\ ret.arg.category = None
    /\ memory_cache # NoCache
    /\ {l.project : l \in Range(memory_cache.learnings)} = {"", "proj-a", "proj-b"}
    /\ {l.project : l \in Range(ret.result)} = {"", "proj-b"}
    /\ Len(ret.result) = 2

\* C26: a get_corrections call with limit >= 0 returns the last `limit`
\* of the corrections matching the category filter (all of them if there
\* are fewer), in storage order, and never more than `limit` entries
C26_LastLimit ==
    [][(CallStep("get_corrections") /\ ~ret'.raised /\ ret'.arg.limit >= 0) =>
         LET all == Loaded.corrections
             limit == ret'.arg.limit
             matching == {i \in 1..Len(all) :
                             \/ ret'.arg.category \in {None, ""}
                             \/ all[i].category = ret'.arg.category}
             chosen == {i \in matching :
                           Cardinality({j \in matching : j > i}) < limit}
             r == ret'.result
         IN  /\ Len(r) <= limit
             /\ Len(r) = Cardinality(chosen)
             /\ \A m \in 1..Len(r) :
                    \E i \in chosen :
                       /\ Cardinality({j \in chosen : j <= i}) = m
                       /\ r[m] = all[i]]_vars

\* C27: a record_call call that returns leaves a snapshot in which
\* total_calls is one more than in the snapshot it loaded, the counter of
\* the tool is one more (1 if the tool had none), every other tool's
\* counter, the learnings and the corrections are the same, and the
\* snapshot file holds exactly that snapshot
C27_RecordCall ==
    [][(CallStep("record_call") /\ ~ret'.raised) =>
         LET tool == ret'.arg
             before == Loaded
             after == Loaded'
             old == before.statistics.calls_by_tool
             new == after.statistics.calls_by_tool
         IN  /\ after.statistics.total_calls = before.statistics.total_calls + 1
             /\ DOMAIN new = DOMAIN old \cup {tool}
             /\ new[tool] = IF tool \in DOMAIN old THEN old[tool] + 1 ELSE 1
             /\ \A other \in DOMAIN old \ {tool} : new[other] = old[other]
             /\ after.learnings = before.learnings
             /\ after.corrections = before.corrections
             /\ file' = Json(after)]_vars

\* a second tool was recorded after a first one, in a store that holds a
\* learning and a correction, and the file has both counters
C27_Witness ==
    /\ ret.op = "record_call"
    /\ ~ret.raised
    /\ ret.arg = "grok_review"
    /\ file.kind = "json"
    /\ file.data.statistics.total_calls = 2
    /\ DOMAIN file.data.statistics.calls_by_tool = Tools
    /\ file.data.statistics.calls_by_tool["ask_grok"] = 1
    /\ file.data.statistics.calls_by_tool["grok_review"] = 1
    /\ Len(file.data.learnings) = 1
    /\ Len(file.data.corrections) = 1

\* the field of a context entry, Absent if the entry has no such field
Absent == [kind |-> "absent"]
Field(entry, name) ==
    IF name \in DOMAIN entry THEN [kind |-> "value", value |-> entry[name]]
    ELSE Absent

\* C28: an update_project_context call that returns leaves an entry for
\* the project (created if there was none); its tech_stack is the one
\* supplied if that is non-empty and what it was before otherwise, the
\* same for its summary; its last_active is the time of the call; and the
\* entries of all other projects are as they were
C28_UpsertContext ==
    [][(CallStep("update_project_context") /\ ~ret'.raised) =>
         LET a == ret'.arg
             before == Loaded.project_contexts
             after == Loaded'.project_contexts
             old == IF a.project \in DOMAIN before THEN before[a.project] ELSE <<>>
             entry == after[a.project]
         IN  /\ DOMAIN after = DOMAIN before \cup {a.project}
             /\ \A other \in DOMAIN before \ {a.project} :
                    after[other] = before[other]
             /\ DOMAIN entry \subseteq {"tech_stack", "summary", "last_active"}
             /\ IF a.tech_stack # ""
                THEN Field(entry, "tech_stack") =
                         [kind |-> "value", value |-> a.tech_stack]
                ELSE Field(entry, "tech_stack") = Field(old, "tech_stack")
             /\ IF a.summary # ""
                THEN Field(entry, "summary") =
                         [kind |-> "value", value |-> a.summary]
                ELSE Field(entry, "summary") = Field(old, "summary")
             /\ Field(entry, "last_active") = [kind |-> "value", value |-> now]]_vars

\* project p, which has a tech_stack and a summary from earlier calls, was
\* updated later with neither, next to an entry of project q
C28_Witness ==
    /\ ret.op = "update_project_context"
    /\ ~ret.raised
    /\ ret.arg.project = "p"
    /\ ret.arg.tech_stack = ""
    /\ ret.arg.summary = ""
    /\ file.kind = "json"
    /\ DOMAIN file.data.project_contexts = {"p", "q"}
    /\ DOMAIN file.data.project_contexts["p"] = {"tech_stack", "summary", "last_active"}
    /\ file.data.project_contexts["p"]["tech_stack"] = "rust"
    /\ file.data.project_contexts["p"]["summary"] = "api"
    /\ file.data.project_contexts["p"]["last_active"] = CACHE_TTL
    /\ file.data.project_contexts["q"]["last_active"] = 0

\* C29: whenever the status of a live session is 'consensus', the session
\* has processed at least two status markers and the two most recent ones
\* are both AGREE
C29_TwoAgrees ==
    \A sid \in DOMAIN ACTIVE_SESSIONS :
        ACTIVE_SESSIONS[sid].status = "consensus" =>
          LET m == markers[sid]
          IN  /\ Len(m) >= 2
              /\ m[Len(m)].type = "AGREE"
              /\ m[Len(m) - 1].type = "AGREE"

\* C30: whenever detect_consensus has returned 'persistent_disagreement'
\* for a live session, the DISAGREE markers among the last LogLen markers
\* the session has processed (they are among its three most recent
\* DISAGREE markers) all carry the same topic
C30_SameTopic ==
    (/\ ret.op = "detect_consensus"
     /\ ret.result = "persistent_disagreement"
     /\ Live(ret.sid)) =>
        LET m == markers[ret.sid]
            d == {i \in 1..Len(m) : m[i].type = "DISAGREE"}
        IN  \A i, j \in d : m[i].topic = m[j].topic

\* the positions of the log from which on only DISAGREE and NEED_INFO
\* markers were processed
Streak(m) ==
    {i \in 1..Len(m) :
        \A j \in i..Len(m) : m[j].type \in {"DISAGREE", "NEED_INFO"}}

\* the log ends with a DISAGREE that is the third of three DISAGREE markers
\* without reason, with no AGREE, PARTIAL or PROPOSAL between them
ThreePlainDisagrees(m) ==
    LET d == {i \in Streak(m) : m[i].type = "DISAGREE"}
        recent == {i \in d : Cardinality({j \in d : j > i}) < 3}
    IN  /\ Len(m) \in d
        /\ Cardinality(recent) = 3
        /\ \A i \in recent : m[i].topic = ""

\* C31: whenever the markers a live session has processed end with three
\* DISAGREE markers without reason, with no AGREE, PARTIAL or PROPOSAL
\* between them, the status of the session is 'persistent_disagreement',
\* and that is what the call on the third returned, whatever the session
\* had processed before
C31_PlainDisagrees ==
    \A sid \in DOMAIN ACTIVE_SESSIONS :
        ThreePlainDisagrees(markers[sid]) =>
            /\ ACTIVE_SESSIONS[sid].status = "persistent_disagreement"
            /\ (ret.op = "detect_consensus" /\ ret.sid = sid) =>
                    ret.result = "persistent_disagreement"

\* three DISAGREE markers without reason were processed by a session that
\* had processed a DISAGREE before them
C31_Witness ==
    /\ ret.op = "detect_consensus"
    /\ Live(ret.sid)
    /\ ThreePlainDisagrees(markers[ret.sid])
    /\ seen[ret.sid] > 3
    /\ ACTIVE_SESSIONS[ret.sid].consecutive_disagrees = 4
    /\ ret.result = "persistent_disagreement"

\* C32: in every state, for every live session, status 'consensus' comes
\* with consecutive_agrees >= 2, status 'persistent_disagreement' with
\* consecutive_disagrees >= 3, and the status is one of 'active',
\* 'consensus', 'persistent_disagreement' and 'needs_info'
C32_StatusInvariant ==
    \A sid \in DOMAIN ACTIVE_SESSIONS :
        LET s == ACTIVE_SESSIONS[sid]
        IN  /\ s.status = "consensus" => s.consecutive_agrees >= 2
            /\ s.status = "persistent_disagreement" => s.consecutive_disagrees >= 3
            /\ s.status \in {"active", "consensus", "persistent_disagreement",
                              "needs_info"}

\* a session is in 'consensus' after a third agreement
C32_Witness ==
    \E sid \in DOMAIN ACTIVE_SESSIONS :
        /\ ACTIVE_SESSIONS[sid].status = "consensus"
        /\ ACTIVE_SESSIONS[sid].consecutive_agrees = 3
        /\ markers[sid][Len(markers[sid])].type = "AGREE"

\* C33: in every state, for every live session, consecutive_agrees and
\* consecutive_disagrees are both at least 0 and at most one of them is
\* greater than 0
C33_CountersExclusive ==
    \A sid \in DOMAIN ACTIVE_SESSIONS :
        LET s == ACTIVE_SESSIONS[sid]
        IN  /\ s.consecutive_agrees >= 0
            /\ s.consecutive_disagrees >= 0
            /\ ~(s.consecutive_agrees > 0 /\ s.consecutive_disagrees > 0)

\* an AGREE was processed right after two DISAGREE markers
C33_Witness ==
    \E sid \in DOMAIN ACTIVE_SESSIONS :
        /\ Len(markers[sid]) = 3
        /\ markers[sid][1].type = "DISAGREE"
        /\ markers[sid][2].type = "DISAGREE"
        /\ markers[sid][3].type = "AGREE"
        /\ ACTIVE_SESSIONS[sid].consecutive_agrees = 1
        /\ ACTIVE_SESSIONS[sid].consecutive_disagrees = 0

\* C34: in every state, every session that was created is live or has a
\* complete transcript in the archive; so a session whose end_session call
\* could not write the transcript is still live
C34_NoSessionLost ==
    \A sid \in usedIds :
        \/ Live(sid)
        \/ sid \in DOMAIN archive /\ archive[sid] # PartialFile

\* C35: after an add_learning, add_correction, record_call or
\* update_project_context call that raised because the snapshot could not
\* be written, a load_memory call returns the snapshot that a load_memory
\* call returned just before the failed call, and that snapshot is the
\* content of the snapshot file
C35_FailedWriteUnchanged ==
    [][(/\ ret'.op \in MutatingOps
        /\ now' = now
        /\ ret'.raised
        /\ ret'.result = "OSError") =>
         /\ Loaded' = Loaded
         /\ file' = Json(Loaded')]_vars

\* C36: a query_learnings call, whatever its category, project and limit,
\* leaves the snapshot that load_memory returns as it was, the order of
\* its learnings included, and leaves the snapshot file as it was
C36_QueryReadOnly ==
    [][(CallStep("query_learnings") /\ ~ret'.raised) =>
         /\ Loaded' = Loaded
         /\ file' = file]_vars

\* C37: from the moment an add_learning call has returned an id until the
\* next call, the snapshot a load_memory call would return (the clock may
\* have moved on and the cache expired) holds exactly one learning with
\* that id, and it has the category and, up to the normalization of the
\* duplicate test, the content the call was given
C37_IdStaysValid ==
    (ret.op = "add_learning" /\ ~ret.raised /\ Loadable) =>
        LET held == {i \in 1..Len(Loaded.learnings) :
                        Loaded.learnings[i].id = ret.result}
        IN  /\ Cardinality(held) = 1
            /\ \A i \in held :
                   /\ Loaded.learnings[i].category = ret.arg.category
                   /\ Normalized(Loaded.learnings[i].content) =
                          Normalized(ret.arg.content)

\* C38: a query_learnings call for project P without a category, with a
\* limit of at least the number of stored learnings, that directly follows
\* an add_learning call for project P which returned id X, returns a
\* learning with id X
C38_VisibleInProject ==
    [][(/\ ret.op = "add_learning" /\ ~ret.raised
        /\ ret.arg.project # ""
        /\ CallStep("query_learnings") /\ ~ret'.raised
        /\ ret'.arg.category = None
        /\ ret'.arg.project = ret.arg.project
        /\ ret'.arg.limit >= Len(Loaded.learnings)) =>
           \E i \in 1..Len(ret'.result) : ret'.result[i].id = ret.result]_vars

\* sum(calls_by_tool.values())
RECURSIVE DictSum(_)
DictSum(d) ==
    IF DOMAIN d = {} THEN 0
    ELSE LET k == CHOOSE x \in DOMAIN d : TRUE
         IN  d[k] + DictSum([x \in DOMAIN d \ {k} |-> d[x]])

\* total_calls is the sum of calls_by_tool, in the snapshot a load_memory
\* call would return and in the snapshot on disk
C39_TotalIsSum ==
    /\ Loadable =>
          Loaded.statistics.total_calls =
              DictSum(Loaded.statistics.calls_by_tool)
    /\ file \notin {Missing, Truncated, Undecodable} =>
          file.data.statistics.total_calls =
              DictSum(file.data.statistics.calls_by_tool)

\* no step lowers the total_calls of the snapshot a load_memory call would
\* return
C39_NeverDecreases ==
    [][(Loadable /\ Loadable') =>
          Loaded'.statistics.total_calls >= Loaded.statistics.total_calls]_vars

\* C39: in every reachable state total_calls equals the sum of the values
\* of calls_by_tool, and total_calls never decreases when the store does
\* not go through corruption recovery
C39_CallTotals == []C39_TotalIsSum /\ C39_NeverDecreases

\* sessions_count is 0 in the cache, in the snapshot on disk and in the
\* snapshot a load_memory call would return
SessionsCountZero ==
    /\ memory_cache # NoCache => memory_cache.statistics.sessions_count = 0
    /\ file.kind = "json" => file.data.statistics.sessions_count = 0
    /\ Loadable => Loaded.statistics.sessions_count = 0

\* C40: statistics.sessions_count keeps its initial value 0 whatever
\* sessions are created and ended and whatever is written to the store,
\* and an end_session call leaves the snapshot file, its temporary file,
\* its backup and the cache with its timestamp as they were
C40_SessionsNotCounted ==
    /\ []SessionsCountZero
    /\ [][CallStep("end_session") =>
             /\ file' = file
             /\ tmp' = tmp
             /\ backup' = backup
             /\ memory_cache' = memory_cache
             /\ cache_timestamp' = cache_timestamp]_vars

\* a found session has just been ended and archived, next to a store that
\* holds a learning and a recorded call
C40_Witness ==
    /\ ret.op = "end_session" /\ ret.found
    /\ ret.sid \in DOMAIN archive
    /\ Loadable
    /\ Len(Loaded.learnings) > 0
    /\ Loaded.statistics.total_calls > 0
    /\ Loaded.statistics.sessions_count = 0

============================================================================
